---- MODULE Spec2Model ----
(***************************************************************************)
(* Model of tufsegm_api: the disk-quota guard (check_available_space,      *)
(* copy_remote, delete_new_contents, unzip), the bash-subprocess           *)
(* supervisor (run_bash_subprocess, setup, monitor_disk_space) and the     *)
(* DEEPaaS endpoint functions (get_metadata, predict, train).              *)
(*                                                                         *)
(* Units.  File sizes and folder usages are counted in MiB, so the         *)
(* source's 1024 ** 3 bytes per GB is GB = 1024 units.  Quantities the     *)
(* source keeps in GB rounded to two decimals (round(x, 2)) are kept in    *)
(* hundredths of a GB (centi-GB) as exact decimals; the representation     *)
(* error of binary floating point (below 1e-14 GB) is not modelled.        *)
(*                                                                         *)
(* Each part of the program has its own specification (SpecSpace,          *)
(* SpecCopy, SpecUnzip, SpecBash, SpecSetup, SpecApi); the variables of    *)
(* the other parts stay at their initial values in it.                     *)
(***************************************************************************)
EXTENDS Integers, Sequences, FiniteSets, TLC

VARIABLES
    dfOut,        \* output of "df -h | grep 'overlay' | awk '{print $4}'"
    casOpt,       \* check_available_space: the proj_lim_option key
    casUsage,     \* check_available_space: get_disk_usage(option PATH)
    casPc,        \* "call" | "returned" | "raised"
    casLimit,     \* the returned limit_gb, in centi-GB
    \* ---- copy_remote
    srcRoot,      \* what frompath is: "dir" | "file" | "none"
    src,          \* the tree under frompath: path -> entry
    dstRoot,      \* what topath is: "dir" | "none"
    dst,          \* the tree under topath: path -> entry
    otherBytes,   \* bytes stored under BASE_PATH outside topath
    cpPc,         \* "idle" | "loop" | "done" | "raised"
    cpQueue,      \* sorted(frompath.rglob("[!.]*")) still to visit
    cpLimitGb,    \* limit_gb (centi-GB), NoLimit before it is computed
    cpLimitBytes, \* limit_bytes, NoLimit before it is computed
    cpContents,   \* topath_contents: top-level entries before copying
    cpExc,        \* the exception the call ended with, "none" if none
    cpDst0,       \* (history) the tree under topath when the call began
    cpUsage0,     \* (history) get_disk_usage() when the call began
    cpCopied,     \* (history) the paths shutil.copy has copied
    cpFailed,     \* (history) the path whose check raised, "" if none
    \* ---- unzip
    zipQueue,     \* the archives of zip_paths not yet unlinked, in order
    dataFiles,    \* files extracted into the data folder: name -> size
    dataOther,    \* bytes of the data folder in other files
    uzPc,         \* "idle" | "archive" | "extract" | "done" | "raised"
    uzTodo,       \* entries of the open archive extractall has yet to write
    uzLimitGb,    \* limit_gb (centi-GB), NoLimit before it is computed
    uzLimitBytes, \* limit_bytes, NoLimit before it is computed
    uzExc,        \* the exception the call ended with, "none" if none
    uzUsage0,     \* (history) get_disk_usage(DATA_PATH) when the call began
    uzExtracted,  \* (history) number of entries written so far
    \* ---- run_bash_subprocess
    gpu,          \* list_physical_devices('GPU') is not empty
    popenOk,      \* subprocess.Popen can start the command
    bashArg,      \* the timeout argument, in seconds
    bashPc,       \* "idle" | "waiting" | "returned" | "raised"
    bashTimeout,  \* the timeout handed to process.wait, in seconds
    proc,         \* the subprocess: "none" | "running" | "exited"
    procRc,       \* its return code once it has exited
    procTermSent, \* process.terminate() has signalled the running process
    clock,        \* seconds since Popen
    launches,     \* (history) number of Popen calls of this call
    bashExc,      \* the exception the call ended with, "none" if none
    bashErr,      \* which raise statement made it: "returncode" | "timeout"
    exitedInTime, \* (history) the process exited while wait was waiting
    \* ---- setup and monitor_disk_space
    setupPc,      \* "idle" | "running" | "returned" | "raised"
    setupExc,     \* the exception setup ended with, "none" if none
    setupScript,  \* setup.sh is a file
    setupLimit,   \* limit_gb of the running call, in hundredths of a GB
    suCalls,      \* number of setup calls started so far
    dataEntries,  \* os.listdir(data_path), as far as setup looks at it
    suData,       \* usage of the data folder, in MiB
    suOther,      \* usage of the rest of the base folder, in MiB
    suWrites,     \* number of writes of the subprocess so far
    mon,          \* the monitor threads started so far, in the order of
                  \* their start, each with the number of the call it is of
    suBreach,     \* (history) the usage of the data folder reached the
                  \* limit of this call while its subprocess was running
    \* ---- the endpoint functions get_metadata, predict and train
    apiEndpoint,  \* the endpoint called: "get_metadata" | "predict" | "train"
    apiOptions,   \* **options as the endpoint received them
    apiAccept,    \* the accept argument of predict
    apiLower,     \* what the layer below does when called: "ok" or the
                  \* exception it raises
    apiRespOk,    \* the response parser can convert the result
    apiGetpassOk, \* getpass.getpass() can read a password
    apiPc,        \* "idle" | "returned" | "raised"
    apiExc,       \* the exception that left the endpoint, "none" if none
    apiCalled,    \* number of calls of the model layer
    apiPassed,    \* the keyword arguments of that call
    \* ---- predict of the model layer
    prPc,         \* "idle" | "copy_model" | "copy_input" | "returned" |
                  \* "raised"
    prModelName,  \* kwargs['model_name'], a path as the sequence of its parts
    prInputFile,  \* kwargs['input_file'], likewise
    modelsDirs,   \* the names of the folders in the models folder
    prInputLocal, \* the input file is in the data folder
    prFunc,       \* what predict_func does when called: "ok" | "raises"
    prPredDir,    \* the predictions folder of the model afterwards:
                  \* "none" | "nomatch" | "match"
    prExc,        \* the exception predict ended with, "none" if none
    prResult,     \* the result returned: "saved" | "nomatch" | "nofolder"
    prModelDir,   \* (history) the folder predict_func was called with
    prModelName0, \* (history) kwargs['model_name'] as the call began
    \* ---- train of the model layer
    trPc,         \* "idle" | "training" | "returned" | "raised"
    trExc,        \* the exception train ended with, "none" if none
    trDataDir,    \* data_path is a folder
    trEntries,    \* os.listdir(data_path) as the call begins
    trZips,       \* number of .zip files below data_path as the call begins
    trRemoteZips, \* number of .zip files in the remote data folder
    trCopy,       \* how copy_remote ends when called: "ok" or its exception
    trSetup,      \* how setup ends when called: "ok" or its exception
    trModels,     \* the entries of the models folder
    trRunDir,     \* the time stamp of the folder the training subprocess has
                  \* made, NoStamp if it has made none
    trSteps,      \* (history) the steps train has begun, in their order
    trResult,     \* what train returned
    trResultOf,   \* the time stamp of the folder whose eval.json it returned
    \* ---- ls_remote_dirs of the API utilities
    lsPc,         \* "call" | "returned" | "raised"
    lsRun,        \* how the rclone subprocess goes: "ok" | "exit1" |
                  \* "timeout" | "error" | "nostart"
    lsRemote,     \* the lines rclone lsf prints for the whole remote
    lsSuffix,     \* the argument suffix
    lsExclude,    \* the argument exclude, NoExclude for None
    lsOuts,       \* the lines communicate has returned
    lsResult,     \* the list returned
    lsKilled,     \* process.kill() was called
    lsExc         \* the exception the call ended with, "none" if none

spaceVars == <<casOpt, casUsage, casPc, casLimit>>
copyVars == <<srcRoot, src, dstRoot, dst, otherBytes, cpPc, cpQueue,
              cpLimitGb, cpLimitBytes, cpContents, cpExc, cpDst0, cpUsage0,
              cpCopied, cpFailed>>
unzipVars == <<zipQueue, dataFiles, dataOther, uzPc, uzTodo, uzLimitGb,
               uzLimitBytes, uzExc, uzUsage0, uzExtracted>>
bashVars == <<gpu, popenOk, bashArg, bashPc, bashTimeout, proc, procRc,
              procTermSent, clock, launches, bashExc, bashErr, exitedInTime>>
setupVars == <<setupPc, setupExc, setupScript, setupLimit, suCalls,
               dataEntries, suData, suOther, suWrites, mon, suBreach>>
apiVars == <<apiEndpoint, apiOptions, apiAccept, apiLower, apiRespOk,
             apiGetpassOk, apiPc, apiExc, apiCalled, apiPassed>>
predictVars == <<prPc, prModelName, prInputFile, modelsDirs, prInputLocal,
                 prFunc, prPredDir, prExc, prResult, prModelDir,
                 prModelName0>>
trainVars == <<trPc, trExc, trDataDir, trEntries, trZips, trRemoteZips,
               trCopy, trSetup, trModels, trRunDir, trSteps, trResult,
               trResultOf>>
lsVars == <<lsPc, lsRun, lsRemote, lsSuffix, lsExclude, lsOuts, lsResult,
            lsKilled, lsExc>>
vars ==
    <<dfOut, spaceVars, copyVars, unzipVars, bashVars, setupVars, apiVars,
      predictVars,
      trainVars,
      lsVars>>

\* what an action of one part leaves alone: df's output and the other parts
SpaceFrame ==
    UNCHANGED <<dfOut, copyVars, unzipVars, bashVars, setupVars, apiVars,
                predictVars,
                trainVars,
                lsVars>>
CopyFrame ==
    UNCHANGED <<dfOut, spaceVars, unzipVars, bashVars, setupVars, apiVars,
                predictVars,
                trainVars,
                lsVars>>
UnzipFrame ==
    UNCHANGED <<dfOut, spaceVars, copyVars, bashVars, setupVars, apiVars,
                predictVars,
                trainVars,
                lsVars>>
BashFrame ==
    UNCHANGED <<dfOut, spaceVars, copyVars, unzipVars, setupVars, apiVars,
                predictVars,
                trainVars,
                lsVars>>
\* setup calls run_bash_subprocess: its steps say what they do to bashVars
SetupFrame ==
    UNCHANGED <<dfOut, spaceVars, copyVars, unzipVars, apiVars,
                predictVars,
                trainVars,
                lsVars>>
ApiFrame ==
    UNCHANGED <<dfOut, spaceVars, copyVars, unzipVars, bashVars, setupVars,
                predictVars,
                trainVars,
                lsVars>>
\* predict calls copy_remote: the steps of the copy are those of copy_remote
PredictFrame ==
    UNCHANGED <<dfOut, spaceVars, unzipVars, bashVars, setupVars, apiVars,
                trainVars,
                lsVars>>
\* train calls run_bash_subprocess, whose steps are those of that function
TrainFrame ==
    UNCHANGED <<dfOut, spaceVars, copyVars, unzipVars, setupVars, apiVars,
                predictVars,
                lsVars>>
LsFrame ==
    UNCHANGED <<dfOut, spaceVars, copyVars, unzipVars, bashVars, setupVars,
                apiVars, predictVars, trainVars>>

----------------------------------------------------------------------------
(* Program constants *)

GB == 1024
LIMIT_GB == 20
DATA_LIMIT_GB == 15
safety == 2

\* PROJ_LIM_OPTIONS: the LIMIT of each option (its PATH is the folder whose
\* usage the caller's state supplies).
PROJ_LIM_OPTIONS == [BASE |-> LIMIT_GB, DATA |-> DATA_LIMIT_GB]

\* run_bash_subprocess: the default of its timeout argument (seconds) and
\* the factor applied when no GPU is found
DefaultTimeout == 1000
CpuFactor == 3

\* train: timedelta(minutes=1), in seconds
Minute == 60

----------------------------------------------------------------------------
(* Bounds and input sets *)

\* usages handed to check_available_space: multiples of UsageStep
UsageStep == 128
MaxUsageSteps == 12

\* what df prints for the overlay mount: a number (in hundredths of its
\* unit) and the unit letter; "none" is an empty output (no overlay line)
DfOutputs ==
    { [num |-> 150, unit |-> "G"], [num |-> 200, unit |-> "G"],
      [num |-> 210, unit |-> "G"], [num |-> 1000, unit |-> "G"],
      [num |-> 5000, unit |-> "G"], [num |-> 50000, unit |-> "M"],
      [num |-> 120, unit |-> "T"], [num |-> 0, unit |-> "none"] }

\* usages of a project folder: small ones, ones around the DATA and BASE
\* limits, and ones above them
CasUsages ==
    { k * UsageStep : k \in 0..MaxUsageSteps }
    \cup { DATA_LIMIT_GB * GB + d : d \in {-103, -1, 0, 700} }
    \cup { LIMIT_GB * GB + d : d \in {-103, -1, 0, 700} }

----------------------------------------------------------------------------
(* Helpers *)

Min(a, b) == IF a <= b THEN a ELSE b

\* round(n / d) to the nearest integer, ties to the even one (Python's
\* round on an exactly representable tie), for n >= 0, d > 0
RoundHalfEven(n, d) ==
    LET q == n \div d
        r == n % d
    IN  IF 2 * r < d THEN q
        ELSE IF 2 * r > d THEN q + 1
        ELSE IF q % 2 = 0 THEN q ELSE q + 1

\* round(usage / (1024 ** 3), 2), in centi-GB
ProjectUsedGb(usage) == RoundHalfEven(usage * 100, GB)

\* float(subprocess.getoutput(cmd).split("G")[0]): the text before the
\* first "G" is a number only when df printed the value in G
NodeReadable(df) == df.unit = "G"

\* node_available_gb in centi-GB: the parsed value, or project_limit_gb
\* when float() raised ValueError
NodeAvailableGb(df, projectLimitGb) ==
    IF NodeReadable(df) THEN df.num ELSE projectLimitGb * 100

\* the comparison that decides whether the node's space replaces the
\* project's remaining space
NodeIsTighterMutant(nodeAvail, projectAvail) ==
    nodeAvail - safety * 100 >= projectAvail

NodeIsTighter(nodeAvail, projectAvail) ==
    nodeAvail - safety * 100 <= projectAvail

\* check_available_space: [raised, limit]; limit in centi-GB
CheckAvailableSpace(projectLimitGb, usage, df) ==
    LET project_used_gb == ProjectUsedGb(usage)
        project_available_gb == projectLimitGb * 100 - project_used_gb
        node_available_gb == NodeAvailableGb(df, projectLimitGb)
    IN  IF node_available_gb <= safety * 100
        THEN [raised |-> TRUE, limit |-> 0]
        ELSE [raised |-> FALSE,
              limit |-> project_used_gb +
                        (IF NodeIsTighter(node_available_gb,
                                          project_available_gb)
                         THEN node_available_gb - safety * 100
                         ELSE project_available_gb)]

\* floor(limit_gb * (1024 ** 3))
LimitBytes(limitGb) == (limitGb * GB) \div 100

----------------------------------------------------------------------------
(* Directory trees: copy_remote and delete_new_contents *)

\* The paths below frompath and below topath, relative to them, in the order
\* sorted() gives pathlib paths (by their parts).
PathOrder == <<"a", "a/x", "f", "g">>
Paths == {PathOrder[i] : i \in 1..Len(PathOrder)}

\* the parent folder of a path; "" is the root (frompath or topath itself)
Parent(p) == IF p = "a/x" THEN "a" ELSE ""

\* the top-level entry (a child of the root) a path lies in
TopOf(p) == IF Parent(p) = "" THEN p ELSE Parent(p)

NoEntry == [kind |-> "none", size |-> 0]
Dir == [kind |-> "dir", size |-> 0]
File(n) == [kind |-> "file", size |-> n]
\* neither a folder nor a regular file: a dangling link, a socket
Special == [kind |-> "special", size |-> 0]

EmptyTree == [p \in Paths |-> NoEntry]

\* an entry exists only inside a folder
WellFormed(t) ==
    \A p \in Paths : (t[p].kind # "none" /\ Parent(p) # "")
                        => t[Parent(p)].kind = "dir"

\* file sizes of the source: multiples of SizeUnit
SizeUnit == 51
MaxSizeUnits == 2
FileSizes == {k * SizeUnit : k \in 0..MaxSizeUnits}
\* the size of a file that is in the destination before the call
OldSize == 7

SrcEntries == {NoEntry, Dir, Special} \cup {File(n) : n \in FileSizes}
DstEntries == {NoEntry, Dir, File(OldSize)}

SrcTrees ==
    {t \in [Paths -> SrcEntries] :
        /\ WellFormed(t)
        /\ t["a"].kind # "special"
        /\ t["a/x"].kind \in {"none", "file"}
        /\ t["f"].kind # "dir"
        /\ t["g"].kind \in {"none", "file"}}

DstTrees ==
    {t \in [Paths -> DstEntries] :
        /\ WellFormed(t)
        /\ t["a/x"].kind # "dir"
        /\ t["g"].kind # "dir"}

\* bytes stored under BASE_PATH outside topath: none, just below the BASE
\* limit, and the BASE limit itself
OtherUsages == {0, LIMIT_GB * GB - 2 * SizeUnit, LIMIT_GB * GB}

CopyDfOutputs ==
    { [num |-> 150, unit |-> "G"], [num |-> 210, unit |-> "G"],
      [num |-> 5000, unit |-> "G"], [num |-> 0, unit |-> "none"] }

NoLimit == -1

RECURSIVE SumSizes(_, _)
SumSizes(t, i) ==
    IF i = 0 THEN 0 ELSE t[PathOrder[i]].size + SumSizes(t, i - 1)

\* sum(f.stat().st_size for f in folder.rglob('*') if f.is_file())
TreeBytes(t) == SumSizes(t, Len(PathOrder))

\* get_disk_usage() for BASE_PATH, which holds topath
BaseUsage == otherBytes + TreeBytes(dst)

\* sorted(frompath.rglob("[!.]*")): every entry below frompath, sorted
Rglob(t) == SelectSeq(PathOrder, LAMBDA p : t[p].kind # "none")

\* set(topath.iterdir()): the top-level entries
Iterdir(t) == {p \in Paths : Parent(p) = "" /\ t[p].kind # "none"}

\* the test made before a file is copied or an archive extracted
WouldExceedStrict(usage, size, limitBytes) == usage + size > limitBytes

WouldExceed(usage, size, limitBytes) == usage + size >= limitBytes

\* delete_new_contents: the top-level entries that are new are removed, a
\* folder with everything below it (shutil.rmtree), a file by unlink
DeleteNewContents(t, original_contents, current_contents) ==
    LET new_contents == current_contents \ original_contents
    IN  [p \in Paths |-> IF TopOf(p) \in new_contents THEN NoEntry ELSE t[p]]

----------------------------------------------------------------------------
(* Archives and the data folder: unzip *)

\* the names an archive's entries are extracted to, below the data folder
EntryNames == {"p", "q"}

\* file_info.file_size of an entry (0: a folder entry or an empty file)
ZipEntrySizes == {0, SizeUnit, 2 * SizeUnit}

\* the size of a .zip file on disk
ZipSize == 10

\* zip_ref.infolist(): no entry, one entry, or two
ZipEntryLists ==
    {<<>>}
    \cup {<<[name |-> "p", size |-> n]>> : n \in ZipEntrySizes}
    \cup {<<[name |-> "p", size |-> n], [name |-> "q", size |-> m]>> :
            n \in ZipEntrySizes, m \in ZipEntrySizes}

Archives == {[zsize |-> ZipSize, entries |-> es] : es \in ZipEntryLists}

\* zip_paths: at most MaxArchives archives
MaxArchives == 2
ZipPathLists == UNION {[1..n -> Archives] : n \in 0..MaxArchives}

NoFile == -1

\* the data folder before the call: with or without an older file "p"
DataFilesBefore ==
    { [n \in EntryNames |-> NoFile],
      [n \in EntryNames |-> IF n = "p" THEN OldSize ELSE NoFile] }

\* bytes of the data folder in other files: none, just below the DATA
\* limit, and the DATA limit itself
DataOtherUsages ==
    {0, DATA_LIMIT_GB * GB - 2 * SizeUnit - ZipSize, DATA_LIMIT_GB * GB}

RECURSIVE SumZips(_)
SumZips(q) == IF q = <<>> THEN 0 ELSE Head(q).zsize + SumZips(Tail(q))

StoredBytes(n) == IF n = NoFile THEN 0 ELSE n

\* get_disk_usage(cfg.DATA_PATH): the zip files are in the data folder and
\* are extracted into it
DataUsage ==
    dataOther + StoredBytes(dataFiles["p"]) + StoredBytes(dataFiles["q"])
    + SumZips(zipQueue)

\* lines 175-182: the loop over infolist() raises at the first entry whose
\* size alone, added to the usage, reaches the limit; nothing is extracted
\* while the loop runs, so every entry is tested against the same usage
ArchiveWouldExceed(usage, entries, limitBytes) ==
    \E i \in 1..Len(entries) : WouldExceed(usage, entries[i].size, limitBytes)

----------------------------------------------------------------------------
(* run_bash_subprocess: helpers *)

\* the step by which the model lets time pass, in seconds
TickS == 1000

\* the timeout arguments callers pass: the default, and a longer one
TimeoutArgs == {DefaultTimeout, 2 * TickS}

\* return codes of a process that ends by itself or is killed from outside
ExitCodes == {0, 1, -9}
\* the return code of a process that SIGTERM ended
SigTermCode == -15

\* lines 263-266 with the factor applied whether a GPU is found or not
EffectiveTimeoutAlwaysScaled(timeout, hasGpu) == timeout * CpuFactor

\* lines 263-266: the timeout is tripled when no GPU device is found
EffectiveTimeout(timeout, hasGpu) ==
    IF ~hasGpu THEN timeout * CpuFactor ELSE timeout

\* line 273: the test of the return code
ReturnCodeOk(return_code) == return_code = 0

\* line 281 as "except Exception"
HandlerCatchesAny(exc) == TRUE

\* line 281: the except clause of the try block catches TimeoutExpired only
HandlerCatches(exc) == exc = "TimeoutExpired"

----------------------------------------------------------------------------
(* setup and monitor_disk_space: helpers *)

\* line 242: the entries setup requires in the data folder
RequiredEntries == {"masks", "train.txt", "test.txt"}

\* the number of setup calls the model follows
MaxSetupCalls == 2

\* the subprocess writes at most MaxWrites times WriteStep MiB
WriteStep == 51
MaxWrites == 2

\* usages of the data folder and of the rest of the base folder at the start
SetupDataUsages == {0, DATA_LIMIT_GB * GB - 2 * WriteStep}
SetupOtherUsages == {0, 2 * WriteStep}

\* what df prints when setup is called: too little space on the node, less
\* space on the node than in the project, or nothing readable
SetupDfOutputs ==
    { [num |-> 150, unit |-> "G"], [num |-> 210, unit |-> "G"],
      [num |-> 0, unit |-> "none"] }

\* the entries the data folder may hold before setup is called
SetupEntriesBefore == {{}, {"masks", "train.txt"}, RequiredEntries}

\* lines 214-216: a daemon thread running monitor_disk_space(limit_gb),
\* started by the call with this number; it has polled nothing yet
NewThread(call, limitGb) ==
    [call |-> call, state |-> "sleeping", limit |-> limitGb, seen |-> -1]

\* the threads of a call
ThreadsOf(threads, call) ==
    {i \in 1..Len(threads) : threads[i].call = call}

\* get_disk_usage(): the usage of the base folder, which holds the data folder
SetupBaseUsage == suOther + suData

\* lines 352 and 358: limit_gb * 1024**3 is not rounded down
MonitorExceeded(stored, limitGb) == stored * 100 >= limitGb * GB

\* line 242 with the test that some required entry is there
HasSomeRequiredEntry(entries) == RequiredEntries \cap entries # {}

\* line 242: the test of the entries of the data folder
HasRequiredEntries(entries) == RequiredEntries \subseteq entries

----------------------------------------------------------------------------
(* The endpoint functions: helpers *)

\* a dictionary with no key
NoOptions == [k \in {} |-> ""]

\* values of the request arguments
ModelFolders == {"m1", "rshare:m2"}
NewModelFolders == {"m3"}
InputFiles == {"img.npy"}
Usernames == {"None", "user"}
ModelTypes == {"UNet"}
ContentTypes == {"application/json", "application/pdf"}

\* PredArgsSchema: input_file is required, display has a default, the two
\* model fields are optional without a default, so their keys may be absent
PredictOptions ==
    UNION { { [k \in D \cup {"input_file", "display"} |->
                 CASE k = "model_folder" -> mf
                   [] k = "model_folder_new" -> mfn
                   [] k = "input_file" -> f
                   [] OTHER -> "False"] :
              mf \in ModelFolders, mfn \in NewModelFolders,
              f \in InputFiles } :
            D \in SUBSET {"model_folder", "model_folder_new"} }

\* TrainArgsSchema: mlflow_username defaults to None
TrainOptions ==
    { [mlflow_username |-> u, model_type |-> t] :
        u \in Usernames, t \in ModelTypes }

\* the exceptions of the layers below the endpoints
LowerExceptions ==
    {"ValueError", "FileNotFoundError", "DiskSpaceExceeded", "SubprocessError"}
LowerOutcomes == {"ok"} \cup LowerExceptions

\* 'key' in options.keys()
HasKey(options, key) == key \in DOMAIN options

\* line 70 with the test left out
HasBothKeysNever(options) == FALSE

\* line 70
HasBothKeys(options) ==
    HasKey(options, "model_folder") /\ HasKey(options, "model_folder_new")

\* line 75
HasNeitherKey(options) ==
    ~HasKey(options, "model_folder") /\ ~HasKey(options, "model_folder_new")

\* line 83 building a new dictionary that holds the one key
SetItemAlone(options, key, value) == [k \in {key} |-> value]

\* options[key] = value
SetItem(options, key, value) ==
    [k \in DOMAIN options \cup {key} |->
        IF k = key THEN value ELSE options[k]]

\* line 113: the truth value of a string or None
Truthy(v) == v \notin {"None", ""}

\* line 51: raise HTTPException(reason=err) from err
Wrapped(exc) == "HTTPException"

\* lines 97 and 131: a bare raise leaves the exception as it is
Reraised(exc) == exc

----------------------------------------------------------------------------
(* predict of the model layer: helpers *)

\* api/config.py: REMOTE_PATH, as the sequence of its parts
REMOTE_PATH == <<"rshare:tufsegm">>

\* the parts of a path that hold the text 'rshare:'
RemoteParts == {"rshare:tufsegm", "rshare:other"}

\* the values of model_name: a local folder, remote folders
ModelNames ==
    { <<"m1">>, <<"rshare:tufsegm", "models", "m1">>,
      <<"rshare:tufsegm", "models", "m2">> }

\* the values of input_file: a file of the data folder, remote files below
\* REMOTE_PATH and elsewhere
InputFileNames ==
    { <<"img.npy">>, <<"rshare:tufsegm", "KA_01", "img.npy">>,
      <<"rshare:other", "img.npy">> }

\* no folder
NoDir == ""

\* 'rshare:' in str(path)
IsRemote(path) == \E i \in 1..Len(path) : path[i] \in RemoteParts

\* Path(path).name
PathName(path) == path[Len(path)]

\* path.relative_to(base) can be computed
IsRelativeTo(path, base) ==
    /\ Len(path) >= Len(base)
    /\ SubSeq(path, 1, Len(base)) = base

\* path.relative_to(base)
RelativeTo(path, base) == SubSeq(path, Len(base) + 1, Len(path))

\* lines 30-34: the model is remote and no local folder has its name
NeedsModelDownload(model_name, dirs) ==
    IsRemote(model_name) /\ PathName(model_name) \notin dirs

\* a remote folder with one file in it
OneFileTree == [EmptyTree EXCEPT !["f"] = File(SizeUnit)]

----------------------------------------------------------------------------
(* train of the model layer: helpers *)

\* Times are in seconds and count from current_time, the moment train reads
\* the clock before it starts the training subprocess (line 152).
NoStamp == -1000000

\* an entry of the models folder whose name is a time stamp
\* (%Y-%m-%d_%H-%M-%S), with or without eval.json in it
Stamped(t, eval) == [kind |-> "stamp", t |-> t, eval |-> eval]
\* an entry whose name is no time stamp and sorts after every time stamp,
\* as every name does that begins with a letter
WordEntry == [kind |-> "word", t |-> 0, eval |-> FALSE]
\* an entry whose name is no time stamp and sorts before every time stamp
LowEntry == [kind |-> "low", t |-> 0, eval |-> FALSE]

\* what the models folder may hold before the training: entries of other
\* names and the folders of runs one and two minutes ago
ModelsBefore ==
    SUBSET { LowEntry, WordEntry, Stamped(0 - Minute, TRUE),
             Stamped(0 - 2 * Minute, TRUE) }

\* the time stamps the folder of this run can have
RunStamps == {0, Minute}

\* the order of sorted() on the names
Rank(e) == CASE e.kind = "low" -> 0 [] e.kind = "stamp" -> 1 [] OTHER -> 2
SortsBefore(a, b) == Rank(a) < Rank(b) \/ (Rank(a) = Rank(b) /\ a.t <= b.t)

\* line 160: sorted(MODELS_PATH.glob("[!.]*"))[-1]
LastEntry(entries) ==
    CHOOSE e \in entries : \A o \in entries : SortsBefore(o, e)

\* line 161: strptime can read the name
IsTimeStamp(e) == e.kind = "stamp"

\* line 162: current_time - model_time <= timedelta(minutes=1)
IsRecent(e) == 0 - e.t <= Minute

\* what os.listdir(data_path) may show
DataListings ==
    { {}, {"images", "annotations"}, {"images", "annotations", "masks"},
      {"images", "annotations", "masks", "train.txt", "test.txt"} }

\* the ends of copy_remote and of setup, as SpecCopy and SpecSetup show them
TrainCopyOutcomes == {"ok", "DiskSpaceExceeded", "OSError"}
TrainSetupOutcomes ==
    {"ok", "DiskSpaceExceeded", "FileNotFoundError", "SubprocessError"}

\* line 112: images or annotations is missing
NeedsCopy(entries) == ~({"images", "annotations"} \subseteq entries)

\* line 128: masks, train.txt or test.txt is missing from the listing of
\* line 109
NeedsSetup(entries) == ~({"masks", "train.txt", "test.txt"} \subseteq entries)

\* line 119: the .zip files found below data_path, after the download if
\* there was one
ZipsFound(entries, zips, remoteZips) ==
    IF NeedsCopy(entries) THEN zips + remoteZips ELSE zips

\* the order of the steps in the body of train (lines 112-176)
StepOrder == <<"copy", "unzip", "setup", "training", "collect">>

----------------------------------------------------------------------------
(* ls_remote_dirs: helpers. A string is a sequence of pieces, "/" being a
   piece of its own, so that suffixes, substrings and parents are computed
   and not assumed. *)

\* exclude=None
NoExclude == <<"None">>

\* the listings the model follows: lines of rclone lsf -R --absolute
RemoteListings ==
    { <<>>,
      << <<"/", "data", ".zip">> >>,
      << <<"/", "models", "/", "run1", "/">>,
         <<"/", "models", "/", "run1", "/", "model", ".h5">>,
         <<"/", "models", "/", "run1", "/", "weights", ".h5">> >>,
      << <<"/", "models", "/", "perun_results", "/", "model", ".h5">>,
         <<"/", "models", "/", "run2", "/", "model", ".h5">>,
         <<"/", "models", "/", "run1", "/", "model", ".h5">>,
         <<"/", "data", ".zip">> >> }

LsSuffixes == { <<".h5">>, <<".zip">> }
LsExcludes == { NoExclude, <<"perun_results">>, <<>> }

\* f.endswith(suffix)
EndsWith(s, suffix) ==
    /\ Len(suffix) <= Len(s)
    /\ SubSeq(s, Len(s) - Len(suffix) + 1, Len(s)) = suffix

\* exclude in f
Contains(s, sub) ==
    \E i \in 1..(Len(s) - Len(sub) + 1) : SubSeq(s, i, i + Len(sub) - 1) = sub

\* s.rstrip("/")
RECURSIVE RStripSlash(_)
RStripSlash(s) ==
    IF s # <<>> /\ s[Len(s)] = "/"
    THEN RStripSlash(SubSeq(s, 1, Len(s) - 1))
    ELSE s

\* str(Path(f).parent) for an absolute path: Path drops a trailing "/",
\* the parent of an entry of the root is "/"
PathParent(f) ==
    LET s == IF RStripSlash(f) = <<>> THEN <<"/">> ELSE RStripSlash(f)
        k == CHOOSE i \in 1..Len(s) :
                 /\ s[i] = "/"
                 /\ \A j \in (i + 1)..Len(s) : s[j] # "/"
    IN  IF k = 1 THEN <<"/">> ELSE SubSeq(s, 1, k - 1)

\* the tests of the two comprehensions (lines 76-82)
KeepsLine(f, suffix, exclude) ==
    /\ EndsWith(f, suffix)
    /\ exclude # NoExclude => ~Contains(f, exclude)

\* lines 76-82: the list dirscan, in the order of the lines
RECURSIVE Dirscan(_, _, _)
Dirscan(files, suffix, exclude) ==
    IF files = <<>> THEN <<>>
    ELSE (IF KeepsLine(Head(files), suffix, exclude)
          THEN << REMOTE_PATH \o RStripSlash(PathParent(Head(files))) >>
          ELSE <<>>)
         \o Dirscan(Tail(files), suffix, exclude)

\* set(dirscan)
SeqToSet(s) == {s[i] : i \in 1..Len(s)}

\* list(set(dirscan)): the lists that hold each element of the set once,
\* in any order
ListsOfSet(S) ==
    { l \in [1..Cardinality(S) -> S] : SeqToSet(l) = S }

----------------------------------------------------------------------------
(* The parts at rest: their variables in a specification of another part *)

SpaceIdle ==
    /\ casOpt = "BASE"
    /\ casUsage = 0
    /\ casPc = "idle"
    /\ casLimit = 0


CopyIdle ==
    /\ srcRoot = "none"
    /\ src = EmptyTree
    /\ dstRoot = "dir"
    /\ dst = EmptyTree
    /\ otherBytes = 0
    /\ cpPc = "idle"
    /\ cpQueue = <<>>
    /\ cpLimitGb = NoLimit
    /\ cpLimitBytes = NoLimit
    /\ cpContents = {}
    /\ cpExc = "none"
    /\ cpDst0 = EmptyTree
    /\ cpUsage0 = 0
    /\ cpCopied = {}
    /\ cpFailed = ""

UnzipIdle ==
    /\ zipQueue = <<>>
    /\ dataFiles = [n \in EntryNames |-> NoFile]
    /\ dataOther = 0
    /\ uzPc = "idle"
    /\ uzTodo = <<>>
    /\ uzLimitGb = NoLimit
    /\ uzLimitBytes = NoLimit
    /\ uzExc = "none"
    /\ uzUsage0 = 0
    /\ uzExtracted = 0

BashIdle ==
    /\ gpu = TRUE
    /\ popenOk = TRUE
    /\ bashArg = DefaultTimeout
    /\ bashPc = "idle"
    /\ bashTimeout = 0
    /\ proc = "none"
    /\ procRc = 0
    /\ procTermSent = FALSE
    /\ clock = 0
    /\ launches = 0
    /\ bashExc = "none"
    /\ bashErr = "none"
    /\ exitedInTime = FALSE

SetupIdle ==
    /\ setupPc = "idle"
    /\ setupExc = "none"
    /\ setupScript = TRUE
    /\ setupLimit = NoLimit
    /\ suCalls = 0
    /\ dataEntries = {}
    /\ suData = 0
    /\ suOther = 0
    /\ suWrites = 0
    /\ mon = <<>>
    /\ suBreach = FALSE

ApiIdle ==
    /\ apiEndpoint = "get_metadata"
    /\ apiOptions = NoOptions
    /\ apiAccept = "application/json"
    /\ apiLower = "ok"
    /\ apiRespOk = TRUE
    /\ apiGetpassOk = TRUE
    /\ apiPc = "idle"
    /\ apiExc = "none"
    /\ apiCalled = 0
    /\ apiPassed = NoOptions

PredictIdle ==
    /\ prPc = "idle"
    /\ prModelName = <<"m1">>
    /\ prInputFile = <<"img.npy">>
    /\ modelsDirs = {}
    /\ prInputLocal = TRUE
    /\ prFunc = "ok"
    /\ prPredDir = "none"
    /\ prExc = "none"
    /\ prResult = "none"
    /\ prModelDir = NoDir
    /\ prModelName0 = <<"m1">>

TrainIdle ==
    /\ trPc = "idle"
    /\ trExc = "none"
    /\ trDataDir = TRUE
    /\ trEntries = {}
    /\ trZips = 0
    /\ trRemoteZips = 0
    /\ trCopy = "ok"
    /\ trSetup = "ok"
    /\ trModels = {}
    /\ trRunDir = NoStamp
    /\ trSteps = <<>>
    /\ trResult = "none"
    /\ trResultOf = NoStamp

LsIdle ==
    /\ lsPc = "call"
    /\ lsRun = "ok"
    /\ lsRemote = <<>>
    /\ lsSuffix = <<>>
    /\ lsExclude = NoExclude
    /\ lsOuts = <<>>
    /\ lsResult = <<>>
    /\ lsKilled = FALSE
    /\ lsExc = "none"

----------------------------------------------------------------------------
(* check_available_space as a call *)

InitSpace ==
    /\ dfOut \in DfOutputs
    /\ casOpt \in {"BASE", "DATA"}
    /\ casUsage \in CasUsages
    /\ casPc = "call"
    /\ casLimit = 0
    /\ CopyIdle
    /\ UnzipIdle
    /\ BashIdle
    /\ SetupIdle
    /\ ApiIdle
    /\ PredictIdle
    /\ TrainIdle
    /\ LsIdle

CasReturn ==
    /\ casPc = "call"
    /\ LET r == CheckAvailableSpace(PROJ_LIM_OPTIONS[casOpt], casUsage, dfOut)
       IN  /\ ~r.raised
           /\ casPc' = "returned"
           /\ casLimit' = r.limit
    /\ UNCHANGED <<casOpt, casUsage>>
    /\ SpaceFrame

CasRaise ==
    /\ casPc = "call"
    /\ CheckAvailableSpace(PROJ_LIM_OPTIONS[casOpt], casUsage, dfOut).raised
    /\ casPc' = "raised"
    /\ UNCHANGED <<casOpt, casUsage, casLimit>>
    /\ SpaceFrame

NextSpace == CasReturn \/ CasRaise

SpecSpace == InitSpace /\ [][NextSpace]_vars

----------------------------------------------------------------------------
(* copy_remote *)

InitCopy ==
    /\ dfOut \in CopyDfOutputs
    /\ srcRoot \in {"dir", "file", "none"}
    /\ src \in SrcTrees
    /\ srcRoot # "dir" => src = EmptyTree
    /\ dstRoot \in {"dir", "none"}
    /\ dst \in DstTrees
    /\ dstRoot = "none" => dst = EmptyTree
    /\ otherBytes \in OtherUsages
    /\ cpPc = "idle"
    /\ cpQueue = <<>>
    /\ cpLimitGb = NoLimit
    /\ cpLimitBytes = NoLimit
    /\ cpContents = {}
    /\ cpExc = "none"
    /\ cpDst0 = dst
    /\ cpUsage0 = BaseUsage
    /\ cpCopied = {}
    /\ cpFailed = ""
    /\ SpaceIdle
    /\ UnzipIdle
    /\ BashIdle
    /\ SetupIdle
    /\ ApiIdle
    /\ PredictIdle
    /\ TrainIdle
    /\ LsIdle

\* the call ends with exception e; the trees stay as they are
CopyRaises(e) ==
    /\ cpPc' = "raised"
    /\ cpExc' = e
    /\ UNCHANGED <<srcRoot, src, dstRoot, dst, otherBytes, cpQueue,
                   cpDst0, cpUsage0, cpCopied, cpFailed>>

\* line 79: topath does not exist, iterdir() raises FileNotFoundError
CopyBeginNoDest ==
    /\ cpPc = "idle"
    /\ dstRoot = "none"
    /\ CopyRaises("FileNotFoundError")
    /\ UNCHANGED <<cpLimitGb, cpLimitBytes, cpContents>>
    /\ CopyFrame

\* line 83: check_available_space raises, outside the try
CopyBeginNoSpace ==
    /\ cpPc = "idle"
    /\ dstRoot = "dir"
    /\ CheckAvailableSpace(PROJ_LIM_OPTIONS["BASE"], BaseUsage, dfOut).raised
    /\ CopyRaises("DiskSpaceExceeded")
    /\ cpContents' = Iterdir(dst)
    /\ UNCHANGED <<cpLimitGb, cpLimitBytes>>
    /\ CopyFrame

\* lines 79-84 done: the limit is known
CopyHasLimit ==
    /\ cpPc = "idle"
    /\ dstRoot = "dir"
    /\ LET r == CheckAvailableSpace(PROJ_LIM_OPTIONS["BASE"], BaseUsage, dfOut)
       IN  /\ ~r.raised
           /\ cpLimitGb' = r.limit
           /\ cpLimitBytes' = LimitBytes(r.limit)
    /\ cpContents' = Iterdir(dst)

\* lines 87-89: frompath is a folder, its entries are listed and sorted
CopyBeginDir ==
    /\ CopyHasLimit
    /\ srcRoot = "dir"
    /\ cpPc' = "loop"
    /\ cpQueue' = Rglob(src)
    /\ UNCHANGED <<srcRoot, src, dstRoot, dst, otherBytes, cpExc, cpDst0,
                   cpUsage0, cpCopied, cpFailed>>
    /\ CopyFrame

\* lines 110-112: frompath is a file; f is not bound in this branch, and
\* UnboundLocalError is caught by neither except clause
CopyBeginFile ==
    /\ CopyHasLimit
    /\ srcRoot = "file"
    /\ CopyRaises("UnboundLocalError")
    /\ CopyFrame

\* lines 119-125: frompath does not exist; OSError is logged and re-raised
CopyBeginMissing ==
    /\ CopyHasLimit
    /\ srcRoot = "none"
    /\ CopyRaises("OSError")
    /\ CopyFrame

\* lines 91-93: a folder of the source is created in the destination
CopyMkdir ==
    /\ cpPc = "loop"
    /\ cpQueue # <<>>
    /\ LET f == Head(cpQueue)
       IN  /\ src[f].kind = "dir"
           /\ dst[f].kind \in {"none", "dir"}
           /\ dst' = [dst EXCEPT ![f] = Dir]
    /\ cpQueue' = Tail(cpQueue)
    /\ UNCHANGED <<srcRoot, src, dstRoot, otherBytes, cpPc, cpLimitGb,
                   cpLimitBytes, cpContents, cpExc, cpDst0, cpUsage0,
                   cpCopied, cpFailed>>
    /\ CopyFrame

\* line 93: mkdir(exist_ok=True) on a path that is a file raises
\* FileExistsError, an OSError: logged and re-raised
CopyMkdirFails ==
    /\ cpPc = "loop"
    /\ cpQueue # <<>>
    /\ src[Head(cpQueue)].kind = "dir"
    /\ dst[Head(cpQueue)].kind = "file"
    /\ CopyRaises("FileExistsError")
    /\ UNCHANGED <<cpLimitGb, cpLimitBytes, cpContents>>
    /\ CopyFrame

\* lines 95-105: the file fits, shutil.copy writes it into the folder
\* topath / parent (overwriting a file of the same name)
CopyFile ==
    /\ cpPc = "loop"
    /\ cpQueue # <<>>
    /\ LET f == Head(cpQueue)
       IN  /\ src[f].kind = "file"
           /\ ~WouldExceed(BaseUsage, src[f].size, cpLimitBytes)
           /\ dst[f].kind # "dir"
           /\ dst' = [dst EXCEPT ![f] = File(src[f].size)]
           /\ cpCopied' = cpCopied \cup {f}
    /\ cpQueue' = Tail(cpQueue)
    /\ UNCHANGED <<srcRoot, src, dstRoot, otherBytes, cpPc, cpLimitGb,
                   cpLimitBytes, cpContents, cpExc, cpDst0, cpUsage0,
                   cpFailed>>
    /\ CopyFrame

\* line 101: the destination holds a folder of the file's name:
\* IsADirectoryError, an OSError: logged and re-raised
CopyFileOntoDir ==
    /\ cpPc = "loop"
    /\ cpQueue # <<>>
    /\ LET f == Head(cpQueue)
       IN  /\ src[f].kind = "file"
           /\ ~WouldExceed(BaseUsage, src[f].size, cpLimitBytes)
           /\ dst[f].kind = "dir"
    /\ CopyRaises("IsADirectoryError")
    /\ UNCHANGED <<cpLimitGb, cpLimitBytes, cpContents>>
    /\ CopyFrame

\* lines 97-100 and 127-134: the file does not fit; DiskSpaceExceeded is
\* raised, the handler deletes the new contents and raises again
CopyFileExceeds ==
    /\ cpPc = "loop"
    /\ cpQueue # <<>>
    /\ LET f == Head(cpQueue)
       IN  /\ src[f].kind = "file"
           /\ WouldExceed(BaseUsage, src[f].size, cpLimitBytes)
           /\ cpFailed' = f
    /\ dst' = DeleteNewContents(dst, cpContents, Iterdir(dst))
    /\ cpPc' = "raised"
    /\ cpExc' = "DiskSpaceExceeded"
    /\ UNCHANGED <<srcRoot, src, dstRoot, otherBytes, cpQueue, cpLimitGb,
                   cpLimitBytes, cpContents, cpDst0, cpUsage0, cpCopied>>
    /\ CopyFrame

\* lines 107-108 and 122-125: neither folder nor file
CopySpecial ==
    /\ cpPc = "loop"
    /\ cpQueue # <<>>
    /\ src[Head(cpQueue)].kind = "special"
    /\ CopyRaises("FileNotFoundError")
    /\ UNCHANGED <<cpLimitGb, cpLimitBytes, cpContents>>
    /\ CopyFrame

\* line 136: every entry was visited
CopyDone ==
    /\ cpPc = "loop"
    /\ cpQueue = <<>>
    /\ cpPc' = "done"
    /\ UNCHANGED <<srcRoot, src, dstRoot, dst, otherBytes, cpQueue,
                   cpLimitGb, cpLimitBytes, cpContents, cpExc, cpDst0,
                   cpUsage0, cpCopied, cpFailed>>
    /\ CopyFrame

NextCopy ==
    \/ CopyBeginNoDest
    \/ CopyBeginNoSpace
    \/ CopyBeginDir
    \/ CopyBeginFile
    \/ CopyBeginMissing
    \/ CopyMkdir
    \/ CopyMkdirFails
    \/ CopyFile
    \/ CopyFileOntoDir
    \/ CopyFileExceeds
    \/ CopySpecial
    \/ CopyDone

SpecCopy == InitCopy /\ [][NextCopy]_vars

----------------------------------------------------------------------------
(* unzip *)

InitUnzip ==
    /\ dfOut \in CopyDfOutputs
    /\ zipQueue \in ZipPathLists
    /\ dataFiles \in DataFilesBefore
    /\ dataOther \in DataOtherUsages
    /\ uzPc = "idle"
    /\ uzTodo = <<>>
    /\ uzLimitGb = NoLimit
    /\ uzLimitBytes = NoLimit
    /\ uzExc = "none"
    /\ uzUsage0 = DataUsage
    /\ uzExtracted = 0
    /\ SpaceIdle
    /\ CopyIdle
    /\ BashIdle
    /\ SetupIdle
    /\ ApiIdle
    /\ PredictIdle
    /\ TrainIdle
    /\ LsIdle

\* line 170: check_available_space raises
UnzipBeginNoSpace ==
    /\ uzPc = "idle"
    /\ CheckAvailableSpace(PROJ_LIM_OPTIONS["DATA"], DataUsage, dfOut).raised
    /\ uzPc' = "raised"
    /\ uzExc' = "DiskSpaceExceeded"
    /\ UNCHANGED <<zipQueue, dataFiles, dataOther, uzTodo, uzLimitGb,
                   uzLimitBytes, uzUsage0, uzExtracted>>
    /\ UnzipFrame

\* lines 170-171: the limit is known
UnzipBegin ==
    /\ uzPc = "idle"
    /\ LET r == CheckAvailableSpace(PROJ_LIM_OPTIONS["DATA"], DataUsage, dfOut)
       IN  /\ ~r.raised
           /\ uzLimitGb' = r.limit
           /\ uzLimitBytes' = LimitBytes(r.limit)
    /\ uzPc' = "archive"
    /\ UNCHANGED <<zipQueue, dataFiles, dataOther, uzTodo, uzExc, uzUsage0,
                   uzExtracted>>
    /\ UnzipFrame

\* lines 174-182: the next archive is opened and an entry fails the check
UnzipCheckFails ==
    /\ uzPc = "archive"
    /\ zipQueue # <<>>
    /\ ArchiveWouldExceed(DataUsage, Head(zipQueue).entries, uzLimitBytes)
    /\ uzPc' = "raised"
    /\ uzExc' = "DiskSpaceExceeded"
    /\ UNCHANGED <<zipQueue, dataFiles, dataOther, uzTodo, uzLimitGb,
                   uzLimitBytes, uzUsage0, uzExtracted>>
    /\ UnzipFrame

\* lines 174-185: every entry passed, extractall begins
UnzipCheckPasses ==
    /\ uzPc = "archive"
    /\ zipQueue # <<>>
    /\ ~ArchiveWouldExceed(DataUsage, Head(zipQueue).entries, uzLimitBytes)
    /\ uzPc' = "extract"
    /\ uzTodo' = Head(zipQueue).entries
    /\ UNCHANGED <<zipQueue, dataFiles, dataOther, uzLimitGb, uzLimitBytes,
                   uzExc, uzUsage0, uzExtracted>>
    /\ UnzipFrame

\* line 185: extractall writes the next entry (over a file of its name)
UnzipExtractEntry ==
    /\ uzPc = "extract"
    /\ uzTodo # <<>>
    /\ dataFiles' = [dataFiles EXCEPT ![Head(uzTodo).name] = Head(uzTodo).size]
    /\ uzTodo' = Tail(uzTodo)
    /\ uzExtracted' = uzExtracted + 1
    /\ UNCHANGED <<zipQueue, dataOther, uzPc, uzLimitGb, uzLimitBytes, uzExc,
                   uzUsage0>>
    /\ UnzipFrame

\* lines 187-189: the archive is extracted, its zip file is unlinked
UnzipUnlink ==
    /\ uzPc = "extract"
    /\ uzTodo = <<>>
    /\ zipQueue' = Tail(zipQueue)
    /\ uzPc' = "archive"
    /\ UNCHANGED <<dataFiles, dataOther, uzTodo, uzLimitGb, uzLimitBytes,
                   uzExc, uzUsage0, uzExtracted>>
    /\ UnzipFrame

\* line 191: every archive is done
UnzipDone ==
    /\ uzPc = "archive"
    /\ zipQueue = <<>>
    /\ uzPc' = "done"
    /\ UNCHANGED <<zipQueue, dataFiles, dataOther, uzTodo, uzLimitGb,
                   uzLimitBytes, uzExc, uzUsage0, uzExtracted>>
    /\ UnzipFrame

NextUnzip ==
    \/ UnzipBeginNoSpace
    \/ UnzipBegin
    \/ UnzipCheckFails
    \/ UnzipCheckPasses
    \/ UnzipExtractEntry
    \/ UnzipUnlink
    \/ UnzipDone

SpecUnzip == InitUnzip /\ [][NextUnzip]_vars

----------------------------------------------------------------------------
(* run_bash_subprocess *)

InitBash ==
    /\ dfOut = [num |-> 0, unit |-> "none"]
    /\ gpu \in BOOLEAN
    /\ popenOk \in BOOLEAN
    /\ bashArg \in TimeoutArgs
    /\ bashPc = "idle"
    /\ bashTimeout = 0
    /\ proc = "none"
    /\ procRc = 0
    /\ procTermSent = FALSE
    /\ clock = 0
    /\ launches = 0
    /\ bashExc = "none"
    /\ bashErr = "none"
    /\ exitedInTime = FALSE
    /\ SpaceIdle
    /\ CopyIdle
    /\ UnzipIdle
    /\ SetupIdle
    /\ ApiIdle
    /\ PredictIdle
    /\ TrainIdle
    /\ LsIdle

\* lines 263-269: the timeout is fixed and Popen starts the command
BashLaunch ==
    /\ bashPc = "idle"
    /\ popenOk
    /\ bashTimeout' = EffectiveTimeout(bashArg, gpu)
    /\ proc' = "running"
    /\ launches' = launches + 1
    /\ clock' = 0
    /\ bashPc' = "waiting"
    /\ UNCHANGED <<gpu, popenOk, bashArg, procRc, procTermSent, bashExc,
                   bashErr, exitedInTime>>

\* line 269: Popen cannot start the command; its OSError is not a
\* TimeoutExpired and leaves the function
BashLaunchFails ==
    /\ bashPc = "idle"
    /\ ~popenOk
    /\ bashTimeout' = EffectiveTimeout(bashArg, gpu)
    /\ bashPc' = "raised"
    /\ bashExc' = "OSError"
    /\ UNCHANGED <<gpu, popenOk, bashArg, proc, procRc, procTermSent, clock,
                   launches, bashErr, exitedInTime>>

\* a direct call of run_bash_subprocess
BashCall ==
    /\ BashLaunch
    /\ BashFrame

BashCallFails ==
    /\ BashLaunchFails
    /\ BashFrame

\* time passes while wait() waits, up to the timeout at most
Tick ==
    /\ bashPc = "waiting"
    /\ proc = "running"
    /\ clock < bashTimeout
    /\ clock' = Min(clock + TickS, bashTimeout)
    /\ UNCHANGED <<gpu, popenOk, bashArg, bashPc, bashTimeout, proc, procRc,
                   procTermSent, launches, bashExc, bashErr, exitedInTime>>
    /\ BashFrame

\* the subprocess ends by itself (or is killed from outside)
ProcExit ==
    /\ proc = "running"
    /\ \E rc \in ExitCodes : procRc' = rc
    /\ proc' = "exited"
    /\ exitedInTime' = (bashPc = "waiting")
    /\ UNCHANGED <<gpu, popenOk, bashArg, bashPc, bashTimeout, procTermSent,
                   clock, launches, bashExc, bashErr>>
    /\ BashFrame

\* the subprocess ends by the SIGTERM that terminate() sent
ProcDiesOfTerm ==
    /\ proc = "running"
    /\ procTermSent
    /\ procRc' = SigTermCode
    /\ proc' = "exited"
    /\ UNCHANGED <<gpu, popenOk, bashArg, bashPc, bashTimeout, procTermSent,
                   clock, launches, bashExc, bashErr, exitedInTime>>
    /\ BashFrame

\* lines 270-274: wait() returns 0
WaitReturnsZero ==
    /\ bashPc = "waiting"
    /\ proc = "exited"
    /\ ReturnCodeOk(procRc)
    /\ bashPc' = "returned"
    /\ UNCHANGED <<gpu, popenOk, bashArg, bashTimeout, proc, procRc,
                   procTermSent, clock, launches, bashExc, bashErr,
                   exitedInTime>>
    /\ BashFrame

\* lines 275-279: wait() returns another code; terminate() finds the process
\* gone and SubprocessError is raised inside the try block, whose except
\* clause (lines 281-286) would replace it by the timeout's error
WaitReturnsNonZero ==
    /\ bashPc = "waiting"
    /\ proc = "exited"
    /\ ~ReturnCodeOk(procRc)
    /\ bashPc' = "raised"
    /\ bashExc' = "SubprocessError"
    /\ bashErr' = IF HandlerCatches("SubprocessError")
                  THEN "timeout" ELSE "returncode"
    /\ UNCHANGED <<gpu, popenOk, bashArg, bashTimeout, proc, procRc,
                   procTermSent, clock, launches, exitedInTime>>
    /\ BashFrame

\* lines 281-286 without the call of terminate()
WaitTimesOutNoTerminate ==
    /\ bashPc = "waiting"
    /\ proc = "running"
    /\ clock >= bashTimeout
    /\ bashPc' = "raised"
    /\ bashExc' = "SubprocessError"
    /\ bashErr' = "timeout"
    /\ UNCHANGED <<gpu, popenOk, bashArg, bashTimeout, proc, procRc,
                   procTermSent, clock, launches, exitedInTime>>
    /\ BashFrame

\* lines 281-286 starting the command again after a first timeout
WaitTimesOutRetry ==
    /\ bashPc = "waiting"
    /\ proc = "running"
    /\ clock >= bashTimeout
    /\ IF launches < 2
       THEN /\ launches' = launches + 1
            /\ clock' = 0
            /\ UNCHANGED <<bashPc, bashExc, bashErr>>
       ELSE /\ bashPc' = "raised"
            /\ bashExc' = "SubprocessError"
            /\ bashErr' = "timeout"
            /\ UNCHANGED <<launches, clock>>
    /\ procTermSent' = TRUE
    /\ UNCHANGED <<gpu, popenOk, bashArg, bashTimeout, proc, procRc,
                   exitedInTime>>
    /\ BashFrame

\* lines 270 and 281-286: the process is still running when the timeout
\* has passed: wait() raises TimeoutExpired, the handler sends SIGTERM with
\* terminate(), which does not wait for the process, and raises
\* SubprocessError
WaitTimesOut ==
    /\ bashPc = "waiting"
    /\ proc = "running"
    /\ clock >= bashTimeout
    /\ HandlerCatches("TimeoutExpired")
    /\ procTermSent' = TRUE
    /\ bashPc' = "raised"
    /\ bashExc' = "SubprocessError"
    /\ bashErr' = "timeout"
    /\ UNCHANGED <<gpu, popenOk, bashArg, bashTimeout, proc, procRc, clock,
                   launches, exitedInTime>>
    /\ BashFrame

NextBash ==
    \/ BashCall
    \/ BashCallFails
    \/ Tick
    \/ ProcExit
    \/ ProcDiesOfTerm
    \/ WaitReturnsZero
    \/ WaitReturnsNonZero
    \/ WaitTimesOut

SpecBash == InitBash /\ [][NextBash]_vars

----------------------------------------------------------------------------
(* setup, with the thread it starts (monitor_disk_space) and the subprocess
   it waits for (run_bash_subprocess) *)

InitSetup ==
    /\ dfOut \in SetupDfOutputs
    /\ gpu \in BOOLEAN
    /\ popenOk \in BOOLEAN
    /\ bashArg = DefaultTimeout
    /\ bashPc = "idle"
    /\ bashTimeout = 0
    /\ proc = "none"
    /\ procRc = 0
    /\ procTermSent = FALSE
    /\ clock = 0
    /\ launches = 0
    /\ bashExc = "none"
    /\ bashErr = "none"
    /\ exitedInTime = FALSE
    /\ setupPc = "idle"
    /\ setupExc = "none"
    /\ setupScript \in BOOLEAN
    /\ setupLimit = NoLimit
    /\ suCalls = 0
    /\ dataEntries \in SetupEntriesBefore
    /\ suData \in SetupDataUsages
    /\ suOther \in SetupOtherUsages
    /\ suWrites = 0
    /\ mon = <<>>
    /\ suBreach = FALSE
    /\ SpaceIdle
    /\ CopyIdle
    /\ UnzipIdle
    /\ ApiIdle
    /\ PredictIdle
    /\ TrainIdle
    /\ LsIdle

\* lines 214-216 with start() called on two threads
StartMonitorTwice(limitGb) ==
    mon' = mon \o <<NewThread(suCalls + 1, limitGb),
                    NewThread(suCalls + 1, limitGb)>>

\* lines 214-216: the daemon thread of this call starts with the limit
StartMonitor(limitGb) ==
    mon' = Append(mon, NewThread(suCalls + 1, limitGb))

\* line 210: check_available_space raises, outside the try block; no thread
\* is started
SetupNoSpace ==
    /\ setupPc = "idle"
    /\ CheckAvailableSpace(PROJ_LIM_OPTIONS["DATA"], suData, dfOut).raised
    /\ suCalls' = suCalls + 1
    /\ setupPc' = "raised"
    /\ setupExc' = "DiskSpaceExceeded"
    /\ UNCHANGED <<setupScript, setupLimit, dataEntries, suData, suOther,
                   suWrites, mon, suBreach>>
    /\ UNCHANGED bashVars
    /\ SetupFrame

\* lines 210-216 done: the limit is known and the thread runs
SetupStarts ==
    /\ setupPc = "idle"
    /\ LET r == CheckAvailableSpace(PROJ_LIM_OPTIONS["DATA"], suData, dfOut)
       IN  /\ ~r.raised
           /\ setupLimit' = r.limit
           /\ StartMonitor(r.limit)
    /\ suCalls' = suCalls + 1
    /\ UNCHANGED <<setupScript, dataEntries, suData, suOther, suWrites,
                   suBreach>>

\* lines 218-220 placed before the thread is started
SetupNoScriptBeforeThread ==
    /\ setupPc = "idle"
    /\ ~CheckAvailableSpace(PROJ_LIM_OPTIONS["DATA"], suData, dfOut).raised
    /\ ~setupScript
    /\ suCalls' = suCalls + 1
    /\ setupLimit' =
          CheckAvailableSpace(PROJ_LIM_OPTIONS["DATA"], suData, dfOut).limit
    /\ setupPc' = "raised"
    /\ setupExc' = "FileNotFoundError"
    /\ UNCHANGED <<setupScript, dataEntries, suData, suOther, suWrites, mon,
                   suBreach>>
    /\ UNCHANGED bashVars
    /\ SetupFrame

\* lines 218-220: setup.sh is missing; FileNotFoundError passes the except
\* clause for DiskSpaceExceeded
SetupNoScript ==
    /\ SetupStarts
    /\ ~setupScript
    /\ setupPc' = "raised"
    /\ setupExc' = "FileNotFoundError"
    /\ UNCHANGED bashVars
    /\ SetupFrame

\* lines 222-233: run_bash_subprocess is called with the default timeout
SetupRun ==
    /\ SetupStarts
    /\ setupScript
    /\ BashLaunch
    /\ setupPc' = "running"
    /\ UNCHANGED setupExc
    /\ SetupFrame

\* lines 222-233, Popen failing
SetupRunFails ==
    /\ SetupStarts
    /\ setupScript
    /\ BashLaunchFails
    /\ setupPc' = "running"
    /\ UNCHANGED setupExc
    /\ SetupFrame

\* lines 233-240: run_bash_subprocess raised; it never raises
\* DiskSpaceExceeded, so the except clause is passed
SetupBashRaised ==
    /\ setupPc = "running"
    /\ bashPc = "raised"
    /\ setupPc' = "raised"
    /\ setupExc' = bashExc
    /\ UNCHANGED <<setupScript, setupLimit, suCalls, dataEntries, suData,
                   suOther, suWrites, mon, suBreach>>
    /\ UNCHANGED bashVars
    /\ SetupFrame

\* lines 242-248: run_bash_subprocess returned and the entries are there
SetupReturns ==
    /\ setupPc = "running"
    /\ bashPc = "returned"
    /\ HasRequiredEntries(dataEntries)
    /\ setupPc' = "returned"
    /\ UNCHANGED <<setupExc, setupScript, setupLimit, suCalls, dataEntries,
                   suData, suOther, suWrites, mon, suBreach>>
    /\ UNCHANGED bashVars
    /\ SetupFrame

\* lines 242-246: run_bash_subprocess returned and an entry is missing
SetupEntriesMissing ==
    /\ setupPc = "running"
    /\ bashPc = "returned"
    /\ ~HasRequiredEntries(dataEntries)
    /\ setupPc' = "raised"
    /\ setupExc' = "FileNotFoundError"
    /\ UNCHANGED <<setupScript, setupLimit, suCalls, dataEntries, suData,
                   suOther, suWrites, mon, suBreach>>
    /\ UNCHANGED bashVars
    /\ SetupFrame

\* the subprocess writes into the data folder
ProcWrites ==
    /\ proc = "running"
    /\ suCalls >= 1
    /\ suWrites < MaxWrites
    /\ suWrites' = suWrites + 1
    /\ suData' = suData + WriteStep
    /\ suBreach' = (suBreach \/ (setupPc = "running" /\ bashPc = "waiting"
                                   /\ suData' * 100 >= setupLimit * GB))
    /\ UNCHANGED <<setupPc, setupExc, setupScript, setupLimit, suCalls,
                   dataEntries, suOther, mon>>
    /\ UNCHANGED bashVars
    /\ SetupFrame

\* the subprocess produces the entries setup looks for
ProcMakesEntries ==
    /\ proc = "running"
    /\ suCalls >= 1
    /\ dataEntries # RequiredEntries
    /\ dataEntries' = RequiredEntries
    /\ UNCHANGED <<setupPc, setupExc, setupScript, setupLimit, suCalls,
                   suData, suOther, suWrites, mon, suBreach>>
    /\ UNCHANGED bashVars
    /\ SetupFrame

\* monitor_disk_space, lines 354-367: the thread wakes up and finds the
\* usage of the base folder below its limit
MonitorPollOk(i) ==
    /\ i <= Len(mon)
    /\ mon[i].state = "sleeping"
    /\ ~MonitorExceeded(SetupBaseUsage, mon[i].limit)
    /\ mon' = [mon EXCEPT ![i].seen = SetupBaseUsage]
    /\ UNCHANGED <<setupPc, setupExc, setupScript, setupLimit, suCalls,
                   dataEntries, suData, suOther, suWrites, suBreach>>
    /\ UNCHANGED bashVars
    /\ SetupFrame

\* lines 358-372 with the test left out: the thread sleeps on
MonitorPollIgnoresBreach(i) ==
    /\ i <= Len(mon)
    /\ mon[i].state = "sleeping"
    /\ MonitorExceeded(SetupBaseUsage, mon[i].limit)
    /\ mon' = [mon EXCEPT ![i].seen = SetupBaseUsage]
    /\ UNCHANGED <<setupPc, setupExc, setupScript, setupLimit, suCalls,
                   dataEntries, suData, suOther, suWrites, suBreach>>
    /\ UNCHANGED bashVars
    /\ SetupFrame

\* monitor_disk_space, lines 358-372: the thread finds the limit reached and
\* raises DiskSpaceExceeded, which ends the thread and nothing else
MonitorPollBreach(i) ==
    /\ i <= Len(mon)
    /\ mon[i].state = "sleeping"
    /\ MonitorExceeded(SetupBaseUsage, mon[i].limit)
    /\ mon' = [mon EXCEPT ![i].state = "raised", ![i].seen = SetupBaseUsage]
    /\ UNCHANGED <<setupPc, setupExc, setupScript, setupLimit, suCalls,
                   dataEntries, suData, suOther, suWrites, suBreach>>
    /\ UNCHANGED bashVars
    /\ SetupFrame

\* the caller calls setup again, once the call and its subprocess have ended
SetupAgain ==
    /\ setupPc \in {"returned", "raised"}
    /\ proc # "running"
    /\ suCalls < MaxSetupCalls
    /\ setupPc' = "idle"
    /\ setupExc' = "none"
    /\ setupLimit' = NoLimit
    /\ suBreach' = FALSE
    /\ bashPc' = "idle"
    /\ bashTimeout' = 0
    /\ proc' = "none"
    /\ procRc' = 0
    /\ procTermSent' = FALSE
    /\ clock' = 0
    /\ launches' = 0
    /\ bashExc' = "none"
    /\ bashErr' = "none"
    /\ exitedInTime' = FALSE
    /\ UNCHANGED <<gpu, popenOk, bashArg>>
    /\ UNCHANGED <<setupScript, suCalls, dataEntries, suData, suOther,
                   suWrites, mon>>
    /\ SetupFrame

NextSetup ==
    \/ SetupNoSpace
    \/ SetupNoScript
    \/ SetupRun
    \/ SetupRunFails
    \/ SetupBashRaised
    \/ SetupReturns
    \/ SetupEntriesMissing
    \/ ProcWrites
    \/ ProcMakesEntries
    \/ \E i \in 1..MaxSetupCalls : MonitorPollOk(i)
    \/ \E i \in 1..MaxSetupCalls : MonitorPollBreach(i)
    \/ SetupAgain
    \/ Tick
    \/ ProcExit
    \/ ProcDiesOfTerm
    \/ WaitReturnsZero
    \/ WaitReturnsNonZero
    \/ WaitTimesOut

SpecSetup == InitSetup /\ [][NextSetup]_vars

----------------------------------------------------------------------------
(* The endpoint functions get_metadata, predict and train *)

InitApi ==
    /\ dfOut = [num |-> 0, unit |-> "none"]
    /\ apiEndpoint \in {"get_metadata", "predict", "train"}
    /\ apiOptions \in CASE apiEndpoint = "predict" -> PredictOptions
                        [] apiEndpoint = "train" -> TrainOptions
                        [] OTHER -> {NoOptions}
    /\ apiAccept \in IF apiEndpoint = "predict"
                     THEN ContentTypes ELSE {"application/json"}
    /\ apiLower \in IF apiEndpoint = "get_metadata"
                    THEN {"ok", "FileNotFoundError"} ELSE LowerOutcomes
    /\ apiRespOk \in IF apiEndpoint = "predict" THEN BOOLEAN ELSE {TRUE}
    /\ apiGetpassOk \in IF apiEndpoint = "train" THEN BOOLEAN ELSE {TRUE}
    /\ apiPc = "idle"
    /\ apiExc = "none"
    /\ apiCalled = 0
    /\ apiPassed = NoOptions
    /\ SpaceIdle
    /\ CopyIdle
    /\ UnzipIdle
    /\ BashIdle
    /\ SetupIdle
    /\ PredictIdle
    /\ TrainIdle
    /\ LsIdle

ApiReturns ==
    /\ apiPc' = "returned"
    /\ UNCHANGED apiExc

ApiRaises(exc) ==
    /\ apiPc' = "raised"
    /\ apiExc' = exc

\* the call of the model layer, aimodel.predict(**options) or
\* aimodel.train(**options)
ApiCallsModel(options) ==
    /\ apiCalled' = apiCalled + 1
    /\ apiPassed' = options

\* get_metadata, lines 34-51: the listing of the folders succeeds, or its
\* exception is replaced by HTTPException
ApiGetMetadata ==
    /\ apiPc = "idle"
    /\ apiEndpoint = "get_metadata"
    /\ IF apiLower = "ok" THEN ApiReturns ELSE ApiRaises(Wrapped(apiLower))
    /\ UNCHANGED <<apiEndpoint, apiOptions, apiAccept, apiLower, apiRespOk,
                   apiGetpassOk, apiCalled, apiPassed>>
    /\ ApiFrame

\* predict, lines 70-79 and 94-97: both model keys or none of them
ApiPredictRejects ==
    /\ apiPc = "idle"
    /\ apiEndpoint = "predict"
    /\ HasBothKeys(apiOptions) \/ HasNeitherKey(apiOptions)
    /\ ApiRaises(Reraised("ValueError"))
    /\ UNCHANGED <<apiEndpoint, apiOptions, apiAccept, apiLower, apiRespOk,
                   apiGetpassOk, apiCalled, apiPassed>>
    /\ ApiFrame

\* predict, lines 81-86 and 94-97: options['model_folder'] of a dictionary
\* without that key raises KeyError, which "except TypeError" lets pass
ApiPredictKeyError ==
    /\ apiPc = "idle"
    /\ apiEndpoint = "predict"
    /\ ~HasBothKeys(apiOptions)
    /\ ~HasNeitherKey(apiOptions)
    /\ ~HasKey(apiOptions, "model_folder")
    /\ ApiRaises(Reraised("KeyError"))
    /\ UNCHANGED <<apiEndpoint, apiOptions, apiAccept, apiLower, apiRespOk,
                   apiGetpassOk, apiCalled, apiPassed>>
    /\ ApiFrame

\* predict, lines 81-97: model_name is added and the model layer is called;
\* its result goes through the response parser, its exception or the
\* parser's RuntimeError is raised again as it is
ApiPredictCalls ==
    /\ apiPc = "idle"
    /\ apiEndpoint = "predict"
    /\ ~HasBothKeys(apiOptions)
    /\ ~HasNeitherKey(apiOptions)
    /\ HasKey(apiOptions, "model_folder")
    /\ ApiCallsModel(SetItem(apiOptions, "model_name",
                             apiOptions["model_folder"]))
    /\ IF apiLower # "ok" THEN ApiRaises(Reraised(apiLower))
       ELSE IF ~apiRespOk THEN ApiRaises(Reraised("RuntimeError"))
       ELSE ApiReturns
    /\ UNCHANGED <<apiEndpoint, apiOptions, apiAccept, apiLower, apiRespOk,
                   apiGetpassOk>>
    /\ ApiFrame

\* train, lines 113-117: a user name is given and getpass() fails, outside
\* the try block
ApiTrainGetpassFails ==
    /\ apiPc = "idle"
    /\ apiEndpoint = "train"
    /\ Truthy(apiOptions["mlflow_username"])
    /\ ~apiGetpassOk
    /\ ApiRaises("EOFError")
    /\ UNCHANGED <<apiEndpoint, apiOptions, apiAccept, apiLower, apiRespOk,
                   apiGetpassOk, apiCalled, apiPassed>>
    /\ ApiFrame

\* train, lines 113-131: the model layer is called; its exception is raised
\* again as it is
ApiTrainCalls ==
    /\ apiPc = "idle"
    /\ apiEndpoint = "train"
    /\ Truthy(apiOptions["mlflow_username"]) => apiGetpassOk
    /\ ApiCallsModel(apiOptions)
    /\ IF apiLower # "ok" THEN ApiRaises(Reraised(apiLower)) ELSE ApiReturns
    /\ UNCHANGED <<apiEndpoint, apiOptions, apiAccept, apiLower, apiRespOk,
                   apiGetpassOk>>
    /\ ApiFrame

NextApi ==
    \/ ApiGetMetadata
    \/ ApiPredictRejects
    \/ ApiPredictKeyError
    \/ ApiPredictCalls
    \/ ApiTrainGetpassFails
    \/ ApiTrainCalls

SpecApi == InitApi /\ [][NextApi]_vars

----------------------------------------------------------------------------
(* predict of the model layer, with the calls of copy_remote it makes *)

InitPredict ==
    /\ dfOut \in { [num |-> 150, unit |-> "G"], [num |-> 0, unit |-> "none"] }
    /\ prPc = "idle"
    /\ prModelName \in ModelNames
    /\ prInputFile \in InputFileNames
    /\ modelsDirs \in SUBSET {"m1", "m2"}
    /\ prInputLocal \in BOOLEAN
    /\ prFunc \in {"ok", "raises"}
    /\ prPredDir \in {"none", "nomatch", "match"}
    /\ prExc = "none"
    /\ prResult = "none"
    /\ prModelDir = NoDir
    /\ prModelName0 = prModelName
    \* the one call of copy_remote the call can make: for the model, into
    \* the folder that os.listdir did not show, or else for the input file
    /\ IF NeedsModelDownload(prModelName, modelsDirs)
       THEN /\ srcRoot \in {"dir", "none"}
            /\ src \in IF srcRoot = "dir" THEN {OneFileTree} ELSE {EmptyTree}
            /\ dstRoot = "none"
       ELSE /\ srcRoot \in {"file", "none"}
            /\ src = EmptyTree
            /\ dstRoot \in {"dir", "none"}
    /\ dst = EmptyTree
    /\ otherBytes \in {0, LIMIT_GB * GB}
    /\ cpPc = "idle"
    /\ cpQueue = <<>>
    /\ cpLimitGb = NoLimit
    /\ cpLimitBytes = NoLimit
    /\ cpContents = {}
    /\ cpExc = "none"
    /\ cpDst0 = dst
    /\ cpUsage0 = BaseUsage
    /\ cpCopied = {}
    /\ cpFailed = ""
    /\ SpaceIdle
    /\ UnzipIdle
    /\ BashIdle
    /\ SetupIdle
    /\ ApiIdle
    /\ TrainIdle
    /\ LsIdle

PredictRaises(exc) ==
    /\ prPc' = "raised"
    /\ prExc' = exc
    /\ UNCHANGED <<prResult, prModelDir>>

\* lines 77-99: predict_func is called with the model folder and the result
\* is read from the predictions folder
RunPrediction(model_name) ==
    /\ prModelDir' = PathName(model_name)
    /\ IF prFunc = "raises"
       THEN /\ prPc' = "raised"
            /\ prExc' = "PredictFuncError"
            /\ UNCHANGED prResult
       ELSE /\ prPc' = "returned"
            /\ prResult' = CASE prPredDir = "match" -> "saved"
                             [] prPredDir = "nomatch" -> "nomatch"
                             [] OTHER -> "nofolder"
            /\ UNCHANGED prExc

\* lines 46-71: the model folder must be there; a remote input file that is
\* not in the data folder is downloaded
PredictWithModel(model_name, isDir) ==
    /\ prModelName' = model_name
    /\ IF ~isDir
       THEN PredictRaises("FileNotFoundError") /\ UNCHANGED prInputFile
       ELSE IF ~IsRemote(prInputFile)
       THEN RunPrediction(model_name) /\ UNCHANGED prInputFile
       ELSE IF ~IsRelativeTo(prInputFile, REMOTE_PATH)
       THEN PredictRaises("ValueError") /\ UNCHANGED prInputFile
       ELSE IF prInputLocal
       THEN /\ prInputFile' = RelativeTo(prInputFile, REMOTE_PATH)
            /\ RunPrediction(model_name)
       ELSE /\ prPc' = "copy_input"
            /\ UNCHANGED <<prInputFile, prExc, prResult, prModelDir>>

\* lines 30-41: the model is remote and not among the local folders;
\* copy_remote is called with the folder <models folder>/<name> as topath
PredictModelDownload ==
    /\ prPc = "idle"
    /\ NeedsModelDownload(prModelName, modelsDirs)
    /\ prPc' = "copy_model"
    /\ UNCHANGED <<prModelName, prInputFile, modelsDirs, prInputLocal, prFunc,
                   prPredDir, prExc, prResult, prModelDir, prModelName0>>
    /\ UNCHANGED copyVars
    /\ PredictFrame

\* lines 40-49: copy_remote has ended; its exception ends predict, else the
\* model name becomes the name of the folder
PredictAfterModelCopy ==
    /\ prPc = "copy_model"
    /\ cpPc \in {"done", "raised"}
    /\ IF cpPc = "raised"
       THEN PredictRaises(cpExc) /\ UNCHANGED <<prModelName, prInputFile>>
       ELSE PredictWithModel(<<PathName(prModelName)>>, dstRoot = "dir")
    /\ UNCHANGED <<modelsDirs, prInputLocal, prFunc, prPredDir, prModelName0>>
    /\ UNCHANGED copyVars
    /\ PredictFrame

\* lines 30-71: the model is local, or remote with a local folder of its
\* name
PredictLocalModel ==
    /\ prPc = "idle"
    /\ ~NeedsModelDownload(prModelName, modelsDirs)
    /\ LET model_name == IF IsRemote(prModelName)
                         THEN <<PathName(prModelName)>> ELSE prModelName
       IN  PredictWithModel(model_name, PathName(model_name) \in modelsDirs)
    /\ UNCHANGED <<modelsDirs, prInputLocal, prFunc, prPredDir, prModelName0>>
    /\ UNCHANGED copyVars
    /\ PredictFrame

\* lines 64-99: copy_remote for the input file has ended
PredictAfterInputCopy ==
    /\ prPc = "copy_input"
    /\ cpPc \in {"done", "raised"}
    /\ IF cpPc = "raised"
       THEN PredictRaises(cpExc) /\ UNCHANGED prInputFile
       ELSE /\ prInputFile' = RelativeTo(prInputFile, REMOTE_PATH)
            /\ RunPrediction(prModelName)
    /\ UNCHANGED <<prModelName, modelsDirs, prInputLocal, prFunc, prPredDir,
                   prModelName0>>
    /\ UNCHANGED copyVars
    /\ PredictFrame

\* copy_remote runs when predict has called it
PredictInCopy == prPc \in {"copy_model", "copy_input"}

NextPredict ==
    \/ PredictModelDownload
    \/ PredictAfterModelCopy
    \/ PredictLocalModel
    \/ PredictAfterInputCopy
    \/ (PredictInCopy /\ CopyBeginNoDest)
    \/ (PredictInCopy /\ CopyBeginNoSpace)
    \/ (PredictInCopy /\ CopyBeginFile)
    \/ (PredictInCopy /\ CopyBeginMissing)

SpecPredict == InitPredict /\ [][NextPredict]_vars

----------------------------------------------------------------------------
(* train of the model layer. copy_remote and setup are followed step by
   step in SpecCopy and SpecSetup; here a call of them is part of the step
   of train that makes it and ends as those specifications show it can end.
   The training subprocess is followed through run_bash_subprocess. *)

InitTrain ==
    /\ dfOut = [num |-> 0, unit |-> "none"]
    /\ trPc = "idle"
    /\ trExc = "none"
    /\ trDataDir \in BOOLEAN
    /\ trEntries \in IF trDataDir THEN DataListings ELSE {{}}
    /\ trZips \in IF trDataDir THEN 0..1 ELSE {0}
    /\ trRemoteZips \in IF trDataDir /\ NeedsCopy(trEntries)
                        THEN 0..1 ELSE {0}
    /\ trCopy \in IF trDataDir /\ NeedsCopy(trEntries)
                  THEN TrainCopyOutcomes ELSE {"ok"}
    /\ trSetup \in IF trDataDir /\ NeedsSetup(trEntries)
                   THEN TrainSetupOutcomes ELSE {"ok"}
    /\ trModels \in ModelsBefore
    /\ trRunDir = NoStamp
    /\ trSteps = <<>>
    /\ trResult = "none"
    /\ trResultOf = NoStamp
    /\ gpu \in BOOLEAN
    /\ popenOk \in BOOLEAN
    /\ bashArg = DefaultTimeout
    /\ bashPc = "idle"
    /\ bashTimeout = 0
    /\ proc = "none"
    /\ procRc = 0
    /\ procTermSent = FALSE
    /\ clock = 0
    /\ launches = 0
    /\ bashExc = "none"
    /\ bashErr = "none"
    /\ exitedInTime = FALSE
    /\ SpaceIdle
    /\ CopyIdle
    /\ UnzipIdle
    /\ SetupIdle
    /\ ApiIdle
    /\ PredictIdle
    /\ LsIdle

\* train ends with exception exc after the steps it has begun
TrainRaises(exc, steps) ==
    /\ trPc' = "raised"
    /\ trExc' = exc
    /\ trSteps' = steps
    /\ UNCHANGED <<trDataDir, trEntries, trZips, trRemoteZips, trCopy,
                   trSetup, trModels, trRunDir, trResult, trResultOf>>

\* the steps begun when the call of copy_remote is over
StepsToCopy == IF NeedsCopy(trEntries) THEN <<"copy">> ELSE <<>>

\* line 109: data_path is no folder, os.listdir raises
TrainListFails ==
    /\ trPc = "idle"
    /\ ~trDataDir
    /\ TrainRaises("FileNotFoundError", <<>>)
    /\ UNCHANGED bashVars
    /\ TrainFrame

\* lines 109-116: images or annotations is missing and copy_remote raises
TrainCopyRaises ==
    /\ trPc = "idle"
    /\ trDataDir
    /\ NeedsCopy(trEntries)
    /\ trCopy # "ok"
    /\ TrainRaises(trCopy, StepsToCopy)
    /\ UNCHANGED bashVars
    /\ TrainFrame

\* lines 109-122: a .zip file is found; unzip(zip_file=zip_path) names a
\* parameter that unzip(zip_paths) does not have, so the call raises
\* TypeError before unzip runs
TrainUnzipRaises ==
    /\ trPc = "idle"
    /\ trDataDir
    /\ NeedsCopy(trEntries) => trCopy = "ok"
    /\ ZipsFound(trEntries, trZips, trRemoteZips) > 0
    /\ TrainRaises("TypeError", StepsToCopy \o <<"unzip">>)
    /\ UNCHANGED bashVars
    /\ TrainFrame

\* lines 109-133: no .zip file; setup is called and raises
TrainSetupRaises ==
    /\ trPc = "idle"
    /\ trDataDir
    /\ NeedsCopy(trEntries) => trCopy = "ok"
    /\ ZipsFound(trEntries, trZips, trRemoteZips) = 0
    /\ NeedsSetup(trEntries)
    /\ trSetup # "ok"
    /\ TrainRaises(trSetup, StepsToCopy \o <<"setup">>)
    /\ UNCHANGED bashVars
    /\ TrainFrame

\* the data folder can be listed, whatever the steps of lines 112-133 do
TrainDataListed ==
    /\ trPc = "idle"
    /\ trDataDir

\* the data are ready: lines 109-133 passed without an exception
TrainDataReady ==
    /\ trPc = "idle"
    /\ trDataDir
    /\ NeedsCopy(trEntries) => trCopy = "ok"
    /\ ZipsFound(trEntries, trZips, trRemoteZips) = 0
    /\ NeedsSetup(trEntries) => trSetup = "ok"

\* the steps begun when the training subprocess is started
StepsToTraining ==
    StepsToCopy
    \o (IF NeedsSetup(trEntries) THEN <<"setup">> ELSE <<>>)
    \o <<"training">>

\* lines 136-155: the clock is read and run_bash_subprocess starts train.sh
TrainStartsTraining ==
    /\ TrainDataReady
    /\ BashLaunch
    /\ trPc' = "training"
    /\ trSteps' = StepsToTraining
    /\ UNCHANGED <<trExc, trDataDir, trEntries, trZips, trRemoteZips, trCopy,
                   trSetup, trModels, trRunDir, trResult, trResultOf>>
    /\ TrainFrame

\* lines 136-155, Popen failing
TrainStartFails ==
    /\ TrainDataReady
    /\ BashLaunchFails
    /\ trPc' = "training"
    /\ trSteps' = StepsToTraining
    /\ UNCHANGED <<trExc, trDataDir, trEntries, trZips, trRemoteZips, trCopy,
                   trSetup, trModels, trRunDir, trResult, trResultOf>>
    /\ TrainFrame

\* the training subprocess makes its output folder in the models folder,
\* named by the time, and may write eval.json into it
TrainProcMakesModel ==
    /\ trPc = "training"
    /\ proc = "running"
    /\ trRunDir = NoStamp
    /\ \E t \in RunStamps, eval \in BOOLEAN :
          /\ trModels' = trModels \cup {Stamped(t, eval)}
          /\ trRunDir' = t
    /\ UNCHANGED <<trPc, trExc, trDataDir, trEntries, trZips, trRemoteZips,
                   trCopy, trSetup, trSteps, trResult, trResultOf>>
    /\ UNCHANGED bashVars
    /\ TrainFrame

\* line 155: run_bash_subprocess raised
TrainBashRaised ==
    /\ trPc = "training"
    /\ bashPc = "raised"
    /\ TrainRaises(bashExc, trSteps)
    /\ UNCHANGED bashVars
    /\ TrainFrame

\* lines 158-176: the last entry of the sorted models folder is taken for
\* the folder of this run
TrainCollects ==
    /\ trPc = "training"
    /\ bashPc = "returned"
    /\ trSteps' = Append(trSteps, "collect")
    /\ IF trModels = {}
       THEN /\ trPc' = "returned"
            /\ trResult' = "nofolders"
            /\ UNCHANGED <<trExc, trResultOf>>
       ELSE LET model_path == LastEntry(trModels)
            IN  IF ~IsTimeStamp(model_path)
                THEN /\ trPc' = "raised"
                     /\ trExc' = "ValueError"
                     /\ UNCHANGED <<trResult, trResultOf>>
                ELSE /\ trPc' = "returned"
                     /\ trResult' = IF ~IsRecent(model_path) THEN "nosimilar"
                                    ELSE IF model_path.eval THEN "eval"
                                    ELSE "noscores"
                     /\ trResultOf' = IF IsRecent(model_path) /\ model_path.eval
                                      THEN model_path.t ELSE NoStamp
                     /\ UNCHANGED trExc
    /\ UNCHANGED <<trDataDir, trEntries, trZips, trRemoteZips, trCopy,
                   trSetup, trModels, trRunDir>>
    /\ UNCHANGED bashVars
    /\ TrainFrame

NextTrain ==
    \/ TrainListFails
    \/ TrainCopyRaises
    \/ TrainUnzipRaises
    \/ TrainSetupRaises
    \/ TrainStartsTraining
    \/ TrainStartFails
    \/ TrainProcMakesModel
    \/ TrainBashRaised
    \/ TrainCollects
    \/ Tick
    \/ ProcExit
    \/ ProcDiesOfTerm
    \/ WaitReturnsZero
    \/ WaitReturnsNonZero
    \/ WaitTimesOut

SpecTrain == InitTrain /\ [][NextTrain]_vars

----------------------------------------------------------------------------
(* ls_remote_dirs as a call *)

InitLs ==
    /\ dfOut = [num |-> 0, unit |-> "none"]
    /\ lsPc = "call"
    /\ lsRun \in {"ok", "exit1", "timeout", "error", "nostart"}
    /\ lsRemote \in RemoteListings
    /\ lsSuffix \in LsSuffixes
    /\ lsExclude \in LsExcludes
    /\ lsOuts = <<>>
    /\ lsResult = <<>>
    /\ lsKilled = FALSE
    /\ lsExc = "none"
    /\ SpaceIdle
    /\ CopyIdle
    /\ UnzipIdle
    /\ BashIdle
    /\ SetupIdle
    /\ ApiIdle
    /\ PredictIdle
    /\ TrainIdle

\* lines 73-83: communicate has returned outs; the list is built from its
\* lines, whatever the exit status of rclone, which is not looked at
LsBuild(outs) ==
    /\ lsOuts' = outs
    /\ lsResult' \in ListsOfSet(SeqToSet(Dirscan(outs, lsSuffix, lsExclude)))
    /\ lsPc' = "returned"
    /\ UNCHANGED <<lsRun, lsRemote, lsSuffix, lsExclude, lsKilled, lsExc>>

\* line 66: Popen cannot start rclone and raises, before the try block
LsPopenFails ==
    /\ lsPc = "call"
    /\ lsRun = "nostart"
    /\ lsPc' = "raised"
    /\ lsExc' = "FileNotFoundError"
    /\ UNCHANGED <<lsRun, lsRemote, lsSuffix, lsExclude, lsOuts, lsResult,
                   lsKilled>>
    /\ LsFrame

\* lines 73-83: rclone lists the whole remote and exits with 0
LsLists ==
    /\ lsPc = "call"
    /\ lsRun = "ok"
    /\ LsBuild(lsRemote)
    /\ LsFrame

\* lines 73-83: rclone exits with an error after it has printed some of
\* the lines
LsListsPartly ==
    /\ lsPc = "call"
    /\ lsRun = "exit1"
    /\ \E k \in 0..Len(lsRemote) : LsBuild(SubSeq(lsRemote, 1, k))
    /\ LsFrame

\* lines 84-93: the process is killed and the empty list is returned
LsGivesUp ==
    /\ lsKilled' = TRUE
    /\ lsResult' = <<>>
    /\ lsPc' = "returned"
    /\ UNCHANGED <<lsRun, lsRemote, lsSuffix, lsExclude, lsOuts, lsExc>>

\* lines 84-88: communicate raises TimeoutExpired
LsTimesOut ==
    /\ lsPc = "call"
    /\ lsRun = "timeout"
    /\ LsGivesUp
    /\ LsFrame

\* lines 89-93: another exception is raised inside the try block
LsRaisesInside ==
    /\ lsPc = "call"
    /\ lsRun = "error"
    /\ LsGivesUp
    /\ LsFrame

NextLs ==
    \/ LsPopenFails
    \/ LsLists
    \/ LsListsPartly
    \/ LsTimesOut
    \/ LsRaisesInside

SpecLs == InitLs /\ [][NextLs]_vars

----------------------------------------------------------------------------
(* Claims: check_available_space *)

NodeSpaceGb(df) ==
    CASE df.unit = "G" -> df.num
      [] df.unit = "M" -> df.num \div GB
      [] df.unit = "T" -> df.num * GB
      [] OTHER -> 0

\* C24: check_available_space raises DiskSpaceExceeded whenever the space
\* available on the node is at most the 2 GB safety margin and returns a
\* limit otherwise; when df prints nothing for the node, the configured
\* project limit stands in for the node's space, and the call raises
\* exactly when that limit is at most 2 GB.
C24_RaisesIffNodeWithinMargin ==
    casPc \in {"returned", "raised"} =>
        IF dfOut.unit = "none"
        THEN casPc = "raised" <=>
                PROJ_LIM_OPTIONS[casOpt] * 100 <= safety * 100
        ELSE casPc = "raised" <=> NodeSpaceGb(dfOut) <= safety * 100

----------------------------------------------------------------------------
(* Claims: copy_remote *)

\* a folder is being copied or its copy has ended, and the byte budget is
\* known
CopyUnderLimit ==
    /\ srcRoot = "dir"
    /\ cpPc \in {"loop", "done", "raised"}
    /\ cpLimitBytes # NoLimit

\* C1 (as stated): in every state during and after the copy the base
\* folder's usage is strictly below limit_bytes.
C1_UsageAlwaysBelowLimit ==
    CopyUnderLimit => BaseUsage < cpLimitBytes

\* C1 (amended): a file is copied only after usage + size < limit_bytes was
\* found, and the file whose check raised DiskSpaceExceeded is not copied;
\* so the usage is strictly below limit_bytes during and after the copy
\* when it was below limit_bytes as the call began, and otherwise no file
\* is copied and the usage does not grow.
C1_UsageBelowLimitIfBelowAtStart ==
    CopyUnderLimit =>
        /\ cpFailed # "" => cpFailed \notin cpCopied
        /\ IF cpUsage0 < cpLimitBytes
           THEN BaseUsage < cpLimitBytes
           ELSE cpCopied = {} /\ BaseUsage <= cpUsage0

\* a copy that started below the limit, copied files and was then stopped
\* by the check
C1_Witness ==
    /\ cpPc = "raised"
    /\ cpExc = "DiskSpaceExceeded"
    /\ cpFailed # ""
    /\ cpCopied # {}
    /\ cpUsage0 < cpLimitBytes

\* C3: when copy_remote aborts with DiskSpaceExceeded, every file written
\* under the destination since the call began is deleted: a path that was
\* free before the call and received a file is free again (so that the
\* destination tree would equal the tree before the call).
C3_NewFilesDeleted ==
    (cpPc = "raised" /\ cpExc = "DiskSpaceExceeded") =>
        \A p \in cpCopied : cpDst0[p].kind = "none" => dst[p].kind = "none"

\* the call has passed lines 79-84 (the destination exists, the limit is
\* known) and has ended
CopyEndedWithLimit ==
    /\ cpPc \in {"done", "raised"}
    /\ cpLimitBytes # NoLimit

\* C16: when the source path is a regular file, copy_remote either copies
\* it and returns normally (usage + size below the budget) or raises
\* DiskSpaceExceeded.
C16_SingleFileCopiedOrRefused ==
    (srcRoot = "file" /\ CopyEndedWithLimit) =>
        (cpPc = "done" \/ cpExc = "DiskSpaceExceeded")

\* C17: when the source path does not exist, copy_remote raises
\* FileNotFoundError and leaves the destination unchanged.
C17_MissingSourceRaisesFileNotFound ==
    (srcRoot = "none" /\ CopyEndedWithLimit) =>
        /\ cpPc = "raised"
        /\ cpExc = "FileNotFoundError"
        /\ dst = cpDst0

----------------------------------------------------------------------------
(* Claims: unzip *)

\* C2: with no other writer, the data folder's usage is strictly below
\* limit_bytes in every state during and after unzip (stated for the calls
\* that begin below limit_bytes, the case in which an archive whose
\* extraction would reach the limit is to be refused before anything of it
\* is extracted).
C2_UnzipStaysBelowLimit ==
    (uzPc \in {"archive", "extract", "done", "raised"}
        /\ uzLimitBytes # NoLimit
        /\ uzUsage0 < uzLimitBytes)
    => DataUsage < uzLimitBytes

----------------------------------------------------------------------------
(* Claims: run_bash_subprocess *)

\* the call has ended
BashEnded == bashPc \in {"returned", "raised"}

\* the call ended in the timeout handler
BashTimedOut == bashPc = "raised" /\ bashErr = "timeout"

\* C5 (as stated): after the call has ended by the timeout, the subprocess
\* is no longer running.
C5_NotRunningAfterTimeout ==
    BashTimedOut => proc # "running"

\* C5 (amended): when the subprocess has not exited within the effective
\* timeout, the call sends it SIGTERM (terminate()) and ends by raising
\* SubprocessError, never by returning; it does not wait for the
\* subprocess, which may still be running after the call has ended.
C5_TimeoutTerminatesAndRaises ==
    /\ (BashEnded /\ launches = 1 /\ ~exitedInTime) =>
          /\ bashPc = "raised"
          /\ bashExc = "SubprocessError"
          /\ bashErr = "timeout"
          /\ procTermSent
          /\ clock >= bashTimeout
    /\ BashTimedOut => (procTermSent /\ bashExc = "SubprocessError")

\* the call has ended by the timeout and the subprocess is still running
C5_Witness ==
    /\ BashTimedOut
    /\ proc = "running"
    /\ procTermSent

\* C6: one call launches the command exactly once, whether it ends by
\* success, by a non-zero return code or by the timeout.
C6_LaunchedExactlyOnce ==
    /\ launches <= 1
    /\ (bashPc = "returned" \/ (bashPc = "raised" /\ bashErr # "none"))
          => launches = 1

\* a call that ended by the timeout after one launch
C6_Witness ==
    /\ BashTimedOut
    /\ launches = 1

\* C7: the call returns normally if and only if the subprocess exits with
\* return code 0 within the timeout; a non-zero return code makes it raise
\* SubprocessError, with the message of the return-code branch (the timeout
\* handler does not intercept it).
C7_ReturnsIffZeroInTime ==
    BashEnded =>
        /\ bashPc = "returned" <=> (exitedInTime /\ procRc = 0)
        /\ (exitedInTime /\ procRc # 0) =>
              /\ bashPc = "raised"
              /\ bashExc = "SubprocessError"
              /\ bashErr = "returncode"

\* a call ended by a non-zero return code that wait() returned in time
C7_Witness ==
    /\ bashPc = "raised"
    /\ exitedInTime
    /\ procRc # 0
    /\ bashErr = "returncode"

\* C20: the timeout the wait uses is the timeout argument (1000 s by
\* default) when a GPU device is found and three times the argument when
\* none is found; the wait gives up at that bound and at no other.
C20_EffectiveTimeout ==
    bashPc # "idle" =>
        /\ gpu => bashTimeout = bashArg
        /\ ~gpu => bashTimeout = 3 * bashArg
        /\ (gpu /\ bashArg = DefaultTimeout) => bashTimeout = 1000
        /\ (~gpu /\ bashArg = DefaultTimeout) => bashTimeout = 3000
        /\ clock <= bashTimeout
        /\ BashTimedOut => clock = bashTimeout

\* without a GPU the call with the default argument has timed out after
\* 3000 s
C20_Witness ==
    /\ ~gpu
    /\ bashArg = DefaultTimeout
    /\ BashTimedOut
    /\ clock = 3000

----------------------------------------------------------------------------
(* Claims: setup *)

\* C4: when the usage reaches or passes the computed limit while the
\* subprocess of setup runs, setup raises DiskSpaceExceeded to its caller
\* and does not return normally (stated for the executions in which the
\* monitor thread of the call has seen the breach and raised).
C4_SetupRaisesOnBreach ==
    (/\ setupPc \in {"returned", "raised"}
     /\ suBreach
     /\ \E i \in ThreadsOf(mon, suCalls) : mon[i].state = "raised") =>
        (setupPc = "raised" /\ setupExc = "DiskSpaceExceeded")

\* C18: whenever setup has returned normally the data folder holds masks,
\* train.txt and test.txt; when the subprocess succeeded and one of the
\* three is missing, setup has raised FileNotFoundError.
C18_ReturnsOnlyWithEntries ==
    /\ setupPc = "returned" =>
          {"masks", "train.txt", "test.txt"} \subseteq dataEntries
    /\ (/\ setupPc \in {"returned", "raised"}
        /\ bashPc = "returned"
        /\ ~({"masks", "train.txt", "test.txt"} \subseteq dataEntries)) =>
          (setupPc = "raised" /\ setupExc = "FileNotFoundError")

\* the subprocess succeeded, test.txt is missing and setup has raised
C18_Witness ==
    /\ setupPc = "raised"
    /\ setupExc = "FileNotFoundError"
    /\ bashPc = "returned"
    /\ dataEntries = {"masks", "train.txt"}

\* a call of setup is running or has ended
SetupCalled == setupPc # "idle" /\ suCalls >= 1

\* C19 (as stated): each call of setup has started exactly one monitor
\* thread.
C19_EveryCallStartsOneThread ==
    SetupCalled => Cardinality(ThreadsOf(mon, suCalls)) = 1

\* C19 (amended): a call of setup that has passed its check of the
\* available space has started exactly one monitor thread, and a call that
\* the check ended with DiskSpaceExceeded has started none; no call has more
\* than one thread; the call neither joins nor cancels the thread, which
\* sleeps on after the call has ended until it has itself seen the limit
\* reached.
C19_OneThreadPerCheckedCall ==
    /\ SetupCalled =>
          Cardinality(ThreadsOf(mon, suCalls)) =
              IF setupPc = "raised" /\ setupExc = "DiskSpaceExceeded"
              THEN 0 ELSE 1
    /\ \A c \in 1..MaxSetupCalls :
          /\ Cardinality(ThreadsOf(mon, c)) <= 1
          /\ c > suCalls => ThreadsOf(mon, c) = {}
    /\ \A i \in 1..Len(mon) :
          /\ mon[i].state \in {"sleeping", "raised"}
          /\ mon[i].state = "raised" =>
                mon[i].seen * 100 >= mon[i].limit * GB

\* setup has returned and its thread still sleeps
C19_Witness ==
    /\ setupPc = "returned"
    /\ \E i \in ThreadsOf(mon, suCalls) : mon[i].state = "sleeping"

\* the threads that are still running
SleepingThreads == {i \in 1..Len(mon) : mon[i].state = "sleeping"}

\* what a step may do to the threads: none is removed, joined or
\* cancelled, the end of a call leaves them alone, and a thread ends only
\* in a step in which the usage has reached its limit
ThreadsOutliveStep ==
    /\ Len(mon') >= Len(mon)
    /\ \A i \in 1..Len(mon) :
          /\ mon'[i].call = mon[i].call
          /\ mon'[i].limit = mon[i].limit
          /\ mon[i].state = "raised" => mon'[i] = mon[i]
          /\ mon'[i].state # mon[i].state =>
                (suOther + suData) * 100 >= mon[i].limit * GB
    /\ (setupPc = "running" /\ setupPc' \in {"returned", "raised"}) =>
          mon' = mon

----------------------------------------------------------------------------
(* Claims: the endpoint functions *)

\* C9: every exception that leaves get_metadata, predict or train is an
\* HTTPException; no exception of a lower layer escapes unchanged.
C9_OnlyHttpExceptionEscapes ==
    apiPc = "raised" => apiExc = "HTTPException"

PredictEndedWithOneKey ==
    /\ apiEndpoint = "predict"
    /\ apiPc # "idle"
    /\ HasKey(apiOptions, "model_folder")
           # HasKey(apiOptions, "model_folder_new")

\* C11: with model_folder_new and no model_folder, predict calls the model
\* layer with model_name set to the value of model_folder_new; with
\* model_folder alone, model_name is the value of model_folder.
C11_ModelNameFromGivenKey ==
    PredictEndedWithOneKey =>
        /\ apiCalled = 1
        /\ HasKey(apiPassed, "model_name")
        /\ apiPassed["model_name"] =
              IF HasKey(apiOptions, "model_folder")
              THEN apiOptions["model_folder"]
              ELSE apiOptions["model_folder_new"]

\* C12 (as stated): the keyword arguments of the model-layer call are
\* exactly the options the endpoint received.
C12_PassedUnchanged ==
    apiCalled = 1 => apiPassed = apiOptions

\* C12 (amended): train hands over the options it received, unchanged;
\* predict hands over every option it received, unchanged, and adds one key,
\* model_name, with the value of model_folder.
C12_PassedUnchangedPlusModelName ==
    apiCalled = 1 =>
        /\ \A k \in DOMAIN apiOptions :
              HasKey(apiPassed, k) /\ apiPassed[k] = apiOptions[k]
        /\ apiEndpoint = "train" => DOMAIN apiPassed = DOMAIN apiOptions
        /\ apiEndpoint = "predict" =>
              /\ DOMAIN apiPassed = DOMAIN apiOptions \cup {"model_name"}
              /\ ~HasKey(apiOptions, "model_name")
              /\ apiPassed["model_name"] = apiOptions["model_folder"]

\* predict has called the model layer with the added key
C12_Witness ==
    /\ apiEndpoint = "predict"
    /\ apiCalled = 1
    /\ HasKey(apiPassed, "model_name")
    /\ HasKey(apiPassed, "input_file")

----------------------------------------------------------------------------
(* Claims: predict of the model layer *)

\* C15: when model_name holds 'rshare:', no local folder has the name of
\* the remote folder, the remote folder exists and the node has space,
\* predict downloads the folder, takes its name as model_name and runs the
\* prediction with the downloaded model.
C15_RemoteModelDownloaded ==
    (/\ prPc \in {"returned", "raised"}
     /\ IsRemote(prModelName0)
     /\ PathName(prModelName0) \notin modelsDirs
     /\ srcRoot = "dir"
     /\ ~CheckAvailableSpace(PROJ_LIM_OPTIONS["BASE"], cpUsage0, dfOut).raised)
        =>
        /\ cpPc = "done"
        /\ prModelName = <<PathName(prModelName0)>>
        /\ prModelDir = PathName(prModelName0)

----------------------------------------------------------------------------
(* Claims: train of the model layer *)

\* C13: when the training subprocess has succeeded and has made, in the
\* models folder, a folder named by the time of the run that holds
\* eval.json, train returns the content of that eval.json, whatever else
\* the models folder holds.
C13_ReturnsEvalOfRun ==
    (/\ trPc \in {"returned", "raised"}
     /\ bashPc = "returned"
     /\ trRunDir # NoStamp
     /\ Stamped(trRunDir, TRUE) \in trModels) =>
        /\ trPc = "returned"
        /\ trResult = "eval"
        /\ trResultOf = trRunDir

\* C14: when the data folder holds .zip files, train extracts them, removes
\* each once and goes on with setup and the training: the unzip step is
\* not the step train ends in.
C14_ZipsExtractedThenContinues ==
    (/\ trPc \in {"returned", "raised"}
     /\ trDataDir
     /\ ~NeedsCopy(trEntries)
     /\ trZips > 0) =>
        /\ trSteps # <<>>
        /\ trSteps[Len(trSteps)] # "unzip"
        /\ trExc # "TypeError"

\* the place of a step in the order of the body of train
StepPlace(step) == CHOOSE i \in 1..Len(StepOrder) : StepOrder[i] = step

TrainStepsBegun == {trSteps[i] : i \in 1..Len(trSteps)}

\* the steps begun follow the order of the body, the download and setup
\* are begun only when the listing lacks their entries, and the training
\* subprocess is started only when every step begun before it ended
\* without an exception
TrainStepsInOrder ==
    /\ \A i, j \in 1..Len(trSteps) :
          i < j => StepPlace(trSteps[i]) < StepPlace(trSteps[j])
    /\ "copy" \in TrainStepsBegun => NeedsCopy(trEntries)
    /\ "setup" \in TrainStepsBegun => NeedsSetup(trEntries)
    /\ "training" \in TrainStepsBegun =>
          /\ "copy" \in TrainStepsBegun => trCopy = "ok"
          /\ "unzip" \notin TrainStepsBegun
          /\ "setup" \in TrainStepsBegun => trSetup = "ok"
    /\ "collect" \in TrainStepsBegun =>
          "training" \in TrainStepsBegun /\ bashPc = "returned"

\* C21: train begins its steps in the order download (only when images or
\* annotations is missing from the listing), unzip, setup (only when
\* masks, train.txt or test.txt is missing from the listing), training
\* subprocess, result collection; the training subprocess is started only
\* when every step begun before it ended without an exception, and once
\* train has raised no further step is begun.
C21_StepsInOrderAndStopOnException ==
    /\ []TrainStepsInOrder
    /\ [][trPc = "raised" => trSteps' = trSteps]_vars

\* the longest run: download, setup, training and result collection
C21_Witness ==
    /\ trPc = "returned"
    /\ trSteps = <<"copy", "setup", "training", "collect">>

----------------------------------------------------------------------------
(* Claims: ls_remote_dirs *)

\* the REMOTE_PATH-prefixed parents of the lines of the remote listing that
\* end with the suffix and do not contain the exclude string
LsExpectedDirs ==
    { REMOTE_PATH \o RStripSlash(PathParent(lsRemote[i])) :
        i \in { j \in 1..Len(lsRemote) :
                  /\ EndsWith(lsRemote[j], lsSuffix)
                  /\ lsExclude # NoExclude =>
                        ~Contains(lsRemote[j], lsExclude) } }

\* the list returned holds no element twice
LsNoDuplicates ==
    \A i, j \in 1..Len(lsResult) : lsResult[i] = lsResult[j] => i = j

\* C25: ls_remote_dirs returns a list without duplicates that holds exactly
\* the REMOTE_PATH-prefixed parent directories of the listed files whose
\* path ends with the suffix and does not contain the exclude string; when
\* the listing subprocess times out or fails, the subprocess is killed and
\* the empty list is returned, not an exception (a subprocess that is
\* still running is killed; one that has ended or never started cannot be).
C25_ListsDirsOrEmptyOnFailure ==
    lsPc \in {"returned", "raised"} =>
        /\ lsPc = "returned"
        /\ LsNoDuplicates
        /\ IF lsRun = "ok"
           THEN SeqToSet(lsResult) = LsExpectedDirs
           ELSE /\ lsResult = <<>>
                /\ lsRun \in {"timeout", "error"} => lsKilled

\* the part of C25 that the code keeps: a listing that succeeded, a
\* time-out and an exception inside the try block
LsHandledRuns ==
    (lsPc \in {"returned", "raised"}
       /\ lsRun \in {"ok", "timeout", "error"}) =>
        /\ lsPc = "returned"
        /\ LsNoDuplicates
        /\ IF lsRun = "ok"
           THEN SeqToSet(lsResult) = LsExpectedDirs
           ELSE lsResult = <<>> /\ lsKilled

====
